---- MODULE Spec2Model ----
(***************************************************************************)
(* A model of the recursive ray tracer: ray/primitive intersection         *)
(* (Sphere, Cube, Cone, Cylinder), the nearest-hit scan of traceRay and    *)
(* the Phong shading recursion with shadow probes and reflection rays.     *)
(*                                                                         *)
(* C++ floats are modelled as fixed-point numbers: an integer n stands for *)
(* the real n / Scale.  Scale is the reciprocal of the smallest constant   *)
(* of the program, the reflection offset 0.0001f, so every constant of the *)
(* source is representable.  +infinity, -infinity and NaN are kept as      *)
(* three reserved values with the IEEE-754 rules for arithmetic and        *)
(* comparison (a comparison with NaN is false).                            *)
(***************************************************************************)
EXTENDS Integers, Sequences, FiniteSets, TLC

VARIABLES scene, stack, pixel, phase, geo, rend

vars == <<scene, stack, pixel, phase, geo, rend>>

----------------------------------------------------------------------------
(* Floats as fixed point.                                                  *)

\* 1 / 0.0001f: the number of model units in 1.0
Scale == 10000
\* sqrt(Scale), used to split a square without leaving the integer range
ScaleRoot == CHOOSE r \in 1..Scale : r * r = Scale
\* std::numeric_limits<float>::infinity()
Infinity == 2000000000
NegInfinity == -Infinity
NaN == Infinity + 1

Half == Scale \div 2
One == Scale

IsNaN(a) == a = NaN
IsInf(a) == a = Infinity \/ a = NegInfinity
IsFinite(a) == ~IsNaN(a) /\ ~IsInf(a)

Abs(a) == IF a < 0 THEN -a ELSE a
Sign(a) == IF a < 0 THEN -1 ELSE IF a > 0 THEN 1 ELSE 0

\* IEEE comparisons: false as soon as one side is NaN
FLt(a, b) == ~IsNaN(a) /\ ~IsNaN(b) /\ a < b
FLe(a, b) == ~IsNaN(a) /\ ~IsNaN(b) /\ a <= b
FGt(a, b) == FLt(b, a)
FGe(a, b) == FLe(b, a)

FNeg(a) == IF IsNaN(a) THEN NaN ELSE -a

FAdd(a, b) ==
    IF IsNaN(a) \/ IsNaN(b) THEN NaN
    ELSE IF IsInf(a) /\ IsInf(b) THEN (IF a = b THEN a ELSE NaN)
    ELSE IF IsInf(a) THEN a
    ELSE IF IsInf(b) THEN b
    ELSE a + b

FSub(a, b) == FAdd(a, FNeg(b))

\* |a| * |b| / Scale for finite a, b >= 0, rounded to nearest, computed in
\* pieces so that no intermediate product leaves the integer range
MulAbs(a, b) ==
    LET ah == a \div Scale
        al == a % Scale
        bh == b \div Scale
        bl == b % Scale
    IN  ah * bh * Scale + ah * bl + al * bh + ((al * bl + Half) \div Scale)

FMul(a, b) ==
    IF IsNaN(a) \/ IsNaN(b) THEN NaN
    ELSE IF IsInf(a) \/ IsInf(b)
         THEN (IF a = 0 \/ b = 0 THEN NaN
               ELSE IF Sign(a) * Sign(b) > 0 THEN Infinity ELSE NegInfinity)
    ELSE Sign(a) * Sign(b) * MulAbs(Abs(a), Abs(b))

\* |a| * Scale / |b| for finite a >= 0, b > 0, rounded to nearest: a long
\* division in two steps of ScaleRoot, so that no product leaves the range
DivAbs(a, b) ==
    LET q0 == a \div b
        r0 == a % b
        q1 == (r0 * ScaleRoot) \div b
        r1 == (r0 * ScaleRoot) % b
        q2 == (r1 * ScaleRoot + (b \div 2)) \div b
    IN  q0 * Scale + q1 * ScaleRoot + q2

FDiv(a, b) ==
    IF IsNaN(a) \/ IsNaN(b) THEN NaN
    ELSE IF IsInf(a) THEN (IF IsInf(b) THEN NaN
                           ELSE IF Sign(a) * (IF b < 0 THEN -1 ELSE 1) > 0
                                THEN Infinity ELSE NegInfinity)
    ELSE IF IsInf(b) THEN 0
    ELSE IF b = 0 THEN (IF a = 0 THEN NaN
                        ELSE IF a > 0 THEN Infinity ELSE NegInfinity)
    ELSE Sign(a) * Sign(b) * DivAbs(Abs(a), Abs(b))

\* pow(x, 2)
Sq(a) == FMul(a, a)

\* s * s <= a * Scale, for integers s, a >= 0, without forming either product
\* (the first conjunct rejects an s whose square would leave the integer range)
SqLeq(s, a) ==
    LET sh == s \div ScaleRoot
        sl == s % ScaleRoot
        low == 2 * ScaleRoot * sh * sl + sl * sl
        q == sh * sh + (low \div Scale)
        r == low % Scale
    IN  (sh = 0 \/ sh <= a \div sh) /\ (q < a \/ (q = a /\ r = 0))

RECURSIVE SqrtSearch(_, _, _)
\* the largest s in lo..hi with s * s <= a * Scale (lo satisfies it)
SqrtSearch(a, lo, hi) ==
    IF lo >= hi THEN lo
    ELSE LET mid == (lo + hi + 1) \div 2
         IN  IF SqLeq(mid, a) THEN SqrtSearch(a, mid, hi)
             ELSE SqrtSearch(a, lo, mid - 1)

\* sqrt(x): NaN for a negative argument, rounded down to the grid otherwise
FSqrt(a) ==
    IF IsNaN(a) \/ a < 0 THEN NaN
    ELSE IF a = Infinity THEN Infinity
    ELSE SqrtSearch(a, 0, IF a < Scale THEN Scale ELSE a)

\* std::min(a, b) is (b < a) ? b : a
FMin(a, b) == IF FLt(b, a) THEN b ELSE a
\* std::max(a, b) is (a < b) ? b : a
FMax(a, b) == IF FLt(a, b) THEN b ELSE a

\* M_PI, std::numbers::pi
Pi == 31416
HalfPi == Pi \div 2

\* sin(x) and cos(x) for |x| <= pi/2, by their power series up to x^9, x^8
FSin(x) ==
    LET x2 == FMul(x, x)
        t4 == FSub(One, FDiv(x2, 72 * One))
        t3 == FSub(One, FMul(FDiv(x2, 42 * One), t4))
        t2 == FSub(One, FMul(FDiv(x2, 20 * One), t3))
        t1 == FSub(One, FMul(FDiv(x2, 6 * One), t2))
    IN  FMul(x, t1)
FCos(x) ==
    LET x2 == FMul(x, x)
        t4 == FSub(One, FDiv(x2, 56 * One))
        t3 == FSub(One, FMul(FDiv(x2, 30 * One), t4))
        t2 == FSub(One, FMul(FDiv(x2, 12 * One), t3))
    IN  FSub(One, FMul(FDiv(x2, 2 * One), t2))
\* tan(x) for 0 <= x < pi/2
FTan(x) == FDiv(FSin(x), FCos(x))

\* atan(z) for 0 <= z <= 1, as z / (1 + 0.28 z^2): 0 at 0, below pi/4 at 1
Atan01(z) == FDiv(z, FAdd(One, FMul(28 * (One \div 100), FMul(z, z))))

\* atan2(b, a): the angle of (a, b) in [-pi, pi], NaN for a NaN argument
FAtan2(b, a) ==
    IF ~IsFinite(a) \/ ~IsFinite(b) THEN NaN
    ELSE LET ab == Abs(a)
             bb == Abs(b)
             base == IF bb = 0 THEN 0
                     ELSE IF ab >= bb THEN Atan01(FDiv(bb, ab))
                     ELSE HalfPi - Atan01(FDiv(ab, bb))
             theta == IF a >= 0 THEN base ELSE Pi - base
         IN  IF b < 0 THEN -theta ELSE theta

\* asinf(x): in [-pi/2, pi/2], NaN outside [-1, 1]
FAsin(x) ==
    IF IsNaN(x) \/ FLt(x, -One) \/ FGt(x, One) THEN NaN
    ELSE FAtan2(x, FSqrt(FSub(One, FMul(x, x))))

----------------------------------------------------------------------------
(* glm::vec3 as a triple, glm::mat3 as a triple of rows.                   *)

Vec(x, y, z) == <<x, y, z>>
VAdd(u, v) == <<FAdd(u[1], v[1]), FAdd(u[2], v[2]), FAdd(u[3], v[3])>>
VSub(u, v) == <<FSub(u[1], v[1]), FSub(u[2], v[2]), FSub(u[3], v[3])>>
VNeg(u) == <<FNeg(u[1]), FNeg(u[2]), FNeg(u[3])>>
VScale(k, u) == <<FMul(k, u[1]), FMul(k, u[2]), FMul(k, u[3])>>
VMul(u, v) == <<FMul(u[1], v[1]), FMul(u[2], v[2]), FMul(u[3], v[3])>>
Dot(u, v) == FAdd(FAdd(FMul(u[1], v[1]), FMul(u[2], v[2])), FMul(u[3], v[3]))
Length(u) == FSqrt(Dot(u, u))
\* glm::normalize
Normalize(u) ==
    LET len == Length(u)
    IN  <<FDiv(u[1], len), FDiv(u[2], len), FDiv(u[3], len)>>
\* glm::reflect(I, N) = I - 2 * dot(N, I) * N
Reflect(I, N) == VSub(I, VScale(FMul(2 * One, Dot(N, I)), N))
\* mat3 * vec3
MatVec(m, u) == <<Dot(m[1], u), Dot(m[2], u), Dot(m[3], u)>>

----------------------------------------------------------------------------
(* Ray                                                                     *)

\* a ray that is constructed with a finite intersection parameter
RayWithStaleT(dir, pos) == [dir |-> dir, pos |-> pos, t |-> One]

\* Ray::Ray(dir, pos); m_tIntersect defaults to +infinity
Ray(dir, pos) == [dir |-> dir, pos |-> pos, t |-> Infinity]
\* Ray::getPos: r(t) = p + t d
GetPos(ray, t) == VAdd(ray.pos, VScale(t, ray.dir))

\* a setter that also moves the origin of the ray to the hit
SetIntersectionTMovingOrigin(ray, t) ==
    [ray EXCEPT !.t = t, !.pos = VAdd(ray.pos, VScale(t, ray.dir))]

\* Ray::setIntersectionT: stores t, with no comparison of its own
SetIntersectionT(ray, t) == [ray EXCEPT !.t = t]
\* Ray::getIntersectionPoint
GetIntersectionPoint(ray) == GetPos(ray, ray.t)

----------------------------------------------------------------------------
(* Primitive: the helpers shared by the four variants.                     *)

\* a solver that returns the farther root of two positive ones
SolveQuadraticFartherRoot(A, B, C) ==
    LET discriminant == FSub(Sq(B), FMul(FMul(4 * One, A), C))
        root == FSqrt(discriminant)
        t1 == FDiv(FSub(FNeg(B), root), FMul(2 * One, A))
        t2 == FDiv(FAdd(FNeg(B), root), FMul(2 * One, A))
    IN  IF FGe(discriminant, 0)
        THEN IF FGt(t1, 0) /\ FLt(t1, t2) THEN t2
             ELSE IF FGt(t2, 0) /\ FLt(t2, t1) THEN t1
             ELSE Infinity
        ELSE Infinity

\* Primitive::solveQuadratic
SolveQuadratic(A, B, C) ==
    LET discriminant == FSub(Sq(B), FMul(FMul(4 * One, A), C))
        root == FSqrt(discriminant)
        t1 == FDiv(FSub(FNeg(B), root), FMul(2 * One, A))
        t2 == FDiv(FAdd(FNeg(B), root), FMul(2 * One, A))
    IN  IF FGe(discriminant, 0)
        THEN IF FGt(t1, 0) /\ FLt(t1, t2) THEN t1
             ELSE IF FGt(t2, 0) /\ FLt(t2, t1) THEN t2
             ELSE Infinity
        ELSE Infinity

\* Primitive::solveQuadraticBothSolutions
SolveQuadraticBothSolutions(A, B, C) ==
    LET discriminant == FSub(Sq(B), FMul(FMul(4 * One, A), C))
        root == FSqrt(discriminant)
        t1 == FDiv(FSub(FNeg(B), root), FMul(2 * One, A))
        t2 == FDiv(FAdd(FNeg(B), root), FMul(2 * One, A))
    IN  IF FGe(discriminant, 0) THEN <<t1, t2>> ELSE <<Infinity, Infinity>>

\* Primitive::intersectPlane; plane is "XY", "XZ" or "YZ"
IntersectPlane(rayDir, rayPos, plane, planeOffset) ==
    LET k == CASE plane = "XY" -> 3
               [] plane = "XZ" -> 2
               [] plane = "YZ" -> 1
        intersectionT == FDiv(FSub(planeOffset, rayPos[k]), rayDir[k])
    IN  IF FGt(intersectionT, 0) THEN intersectionT ELSE Infinity

RECURSIVE MinElement(_)
\* std::min_element over a non-empty list: the first smallest element
MinElement(list) ==
    IF Len(list) = 1 THEN list[1]
    ELSE LET m == MinElement(SubSeq(list, 1, Len(list) - 1))
         IN  IF FLt(list[Len(list)], m) THEN list[Len(list)] ELSE m

\* Primitive::getSmallest
GetSmallest(list) == IF list = <<>> THEN Infinity ELSE MinElement(list)

\* isInSquare
IsInSquare(x, y, sideLength) ==
    FLe(Abs(x), FDiv(sideLength, 2 * One)) /\ FLe(Abs(y), FDiv(sideLength, 2 * One))

----------------------------------------------------------------------------
(* The four variants.  A primitive is a record whose shape fields are      *)
(* radius (m_radius, m_baseRadius), height (m_height) and side             *)
(* (m_sideLength).                                                         *)

Quarter == One \div 4
Sixteenth == One \div 16

\* Sphere::getIntersectionT
SphereIntersectionT(prim, objSpaceRay) ==
    LET d == objSpaceRay.dir
        p == objSpaceRay.pos
        A == FAdd(FAdd(Sq(d[1]), Sq(d[2])), Sq(d[3]))
        B == FAdd(FAdd(FMul(FMul(2 * One, p[1]), d[1]),
                       FMul(FMul(2 * One, p[2]), d[2])),
                  FMul(FMul(2 * One, p[3]), d[3]))
        C == FSub(FAdd(FAdd(Sq(p[1]), Sq(p[2])), Sq(p[3])), Sq(prim.radius))
    IN  SolveQuadratic(A, B, C)

\* Sphere::getObjSpaceNormal
SphereObjSpaceNormal(prim, q) ==
    <<FMul(2 * One, q[1]), FMul(2 * One, q[2]), FMul(2 * One, q[3])>>

\* a pair of faces that keeps the farther plane (std::max for std::min)
CubeFacePairFarther(objSpaceRay, plane, a, b) ==
    LET currT == FMax(IntersectPlane(objSpaceRay.dir, objSpaceRay.pos, plane, Half),
                      IntersectPlane(objSpaceRay.dir, objSpaceRay.pos, plane, -Half))
        intersectionPoint == GetPos(objSpaceRay, currT)
    IN  IF FLt(currT, Infinity)
           /\ IsInSquare(intersectionPoint[a], intersectionPoint[b], One)
        THEN <<currT>> ELSE <<>>

\* Cube::getIntersectionT, one pair of faces: the nearer plane of the pair,
\* kept when the point lies in the unit square of the two other axes
CubeFacePair(objSpaceRay, plane, a, b) ==
    LET currT == FMin(IntersectPlane(objSpaceRay.dir, objSpaceRay.pos, plane, Half),
                      IntersectPlane(objSpaceRay.dir, objSpaceRay.pos, plane, -Half))
        intersectionPoint == GetPos(objSpaceRay, currT)
    IN  IF FLt(currT, Infinity)
           /\ IsInSquare(intersectionPoint[a], intersectionPoint[b], One)
        THEN <<currT>> ELSE <<>>

\* Cube::getIntersectionT
CubeIntersectionT(prim, objSpaceRay) ==
    GetSmallest(CubeFacePair(objSpaceRay, "XY", 1, 2)
                \o CubeFacePair(objSpaceRay, "XZ", 1, 3)
                \o CubeFacePair(objSpaceRay, "YZ", 2, 3))

\* the epsilons of Cube::getObjSpaceNormal: 0.001 for the x = 0.5 face,
\* 0.0001 for the others
CubeEpsX == One \div 1000
CubeEps == One \div 10000

\* Cube::getObjSpaceNormal
CubeObjSpaceNormal(prim, q) ==
    IF FLt(Abs(FSub(q[1], Half)), CubeEpsX) THEN <<One, 0, 0>>
    ELSE IF FLt(Abs(FAdd(q[1], Half)), CubeEps) THEN <<-One, 0, 0>>
    ELSE IF FLt(Abs(FSub(q[2], Half)), CubeEps) THEN <<0, One, 0>>
    ELSE IF FLt(Abs(FAdd(q[2], Half)), CubeEps) THEN <<0, -One, 0>>
    ELSE IF FLt(Abs(FSub(q[3], Half)), CubeEps) THEN <<0, 0, One>>
    ELSE <<0, 0, -One>>

\* a lateral test that checks the base side of the range only
ConeLateralBaseSideOnly(prim, objSpaceRay) ==
    LET d == objSpaceRay.dir
        p == objSpaceRay.pos
        A == FSub(FAdd(Sq(d[1]), Sq(d[3])), FMul(Quarter, Sq(d[2])))
        B == FAdd(FSub(FAdd(FMul(FMul(2 * One, p[1]), d[1]),
                            FMul(FMul(2 * One, p[3]), d[3])),
                       FMul(FMul(Half, p[2]), d[2])),
                  FMul(Quarter, d[2]))
        C == FSub(FAdd(FSub(FAdd(Sq(p[1]), Sq(p[3])), FMul(Quarter, Sq(p[2]))),
                       FMul(Quarter, p[2])),
                  Sixteenth)
        ts == SolveQuadraticBothSolutions(A, B, C)
        lo == FDiv(FNeg(prim.height), 2 * One)
    IN  IF FLt(ts[1], Infinity) \/ FLt(ts[2], Infinity)
        THEN (IF FGe(GetPos(objSpaceRay, ts[1])[2], lo) THEN <<ts[1]>> ELSE <<>>)
             \o (IF FGe(GetPos(objSpaceRay, ts[2])[2], lo) THEN <<ts[2]>> ELSE <<>>)
        ELSE <<>>

\* Cone::getIntersectionT, the conical top: the roots of the lateral
\* quadratic whose hit point has y in [-h/2, h/2]
ConeLateral(prim, objSpaceRay) ==
    LET d == objSpaceRay.dir
        p == objSpaceRay.pos
        A == FSub(FAdd(Sq(d[1]), Sq(d[3])), FMul(Quarter, Sq(d[2])))
        B == FAdd(FSub(FAdd(FMul(FMul(2 * One, p[1]), d[1]),
                            FMul(FMul(2 * One, p[3]), d[3])),
                       FMul(FMul(Half, p[2]), d[2])),
                  FMul(Quarter, d[2]))
        C == FSub(FAdd(FSub(FAdd(Sq(p[1]), Sq(p[3])), FMul(Quarter, Sq(p[2]))),
                       FMul(Quarter, p[2])),
                  Sixteenth)
        ts == SolveQuadraticBothSolutions(A, B, C)
        t1 == ts[1]
        t2 == ts[2]
        yIntersect1 == GetPos(objSpaceRay, t1)[2]
        yIntersect2 == GetPos(objSpaceRay, t2)[2]
        lo == FDiv(FNeg(prim.height), 2 * One)
        hi == FDiv(prim.height, 2 * One)
    IN  IF FLt(t1, Infinity) \/ FLt(t2, Infinity)
        THEN (IF FGe(yIntersect1, lo) /\ FLe(yIntersect1, hi) THEN <<t1>> ELSE <<>>)
             \o (IF FGe(yIntersect2, lo) /\ FLe(yIntersect2, hi) THEN <<t2>> ELSE <<>>)
        ELSE <<>>

\* Cone::getIntersectionT, the flat base: the y = -0.5 plane within the disk
ConeBase(prim, objSpaceRay) ==
    LET currT == FDiv(FSub(-Half, objSpaceRay.pos[2]), objSpaceRay.dir[2])
        xIntersect == GetPos(objSpaceRay, currT)[1]
        zIntersect == GetPos(objSpaceRay, currT)[3]
    IN  IF FLt(currT, Infinity)
           /\ FLe(FAdd(Sq(xIntersect), Sq(zIntersect)), Sq(prim.radius))
        THEN <<currT>> ELSE <<>>

\* Cone::getIntersectionT
ConeIntersectionT(prim, objSpaceRay) ==
    GetSmallest(ConeLateral(prim, objSpaceRay) \o ConeBase(prim, objSpaceRay))

\* the epsilon of the cap tests of Cone and Cylinder::getObjSpaceNormal
CapEps == One \div 10000

\* Cone::getObjSpaceNormal
ConeObjSpaceNormal(prim, q) ==
    IF FLt(Abs(FAdd(q[2], FDiv(prim.height, 2 * One))), CapEps) THEN <<0, -One, 0>>
    ELSE <<FMul(2 * One, q[1]), FSub(Quarter, FMul(Half, q[2])), FMul(2 * One, q[3])>>

\* Cylinder::getIntersectionT, the caps: no test of currT against infinity
CylinderCaps(prim, objSpaceRay) ==
    LET currT == FMin(IntersectPlane(objSpaceRay.dir, objSpaceRay.pos, "XZ", Half),
                      IntersectPlane(objSpaceRay.dir, objSpaceRay.pos, "XZ", -Half))
        xIntersect == GetPos(objSpaceRay, currT)[1]
        zIntersect == GetPos(objSpaceRay, currT)[3]
    IN  IF FLe(FAdd(Sq(xIntersect), Sq(zIntersect)), Sq(prim.radius))
        THEN <<currT>> ELSE <<>>

\* Cylinder::getIntersectionT, the body
CylinderBody(prim, objSpaceRay) ==
    LET d == objSpaceRay.dir
        p == objSpaceRay.pos
        A == FAdd(Sq(d[1]), Sq(d[3]))
        B == FMul(2 * One, FAdd(FMul(d[1], p[1]), FMul(d[3], p[3])))
        C == FSub(FAdd(Sq(p[1]), Sq(p[3])), Sq(prim.radius))
        currT == SolveQuadratic(A, B, C)
        yIntersect == GetPos(objSpaceRay, currT)[2]
    IN  IF FLt(currT, Infinity)
           /\ FGe(yIntersect, FDiv(FNeg(prim.height), 2 * One))
           /\ FLe(yIntersect, FDiv(prim.height, 2 * One))
        THEN <<currT>> ELSE <<>>

\* Cylinder::getIntersectionT
CylinderIntersectionT(prim, objSpaceRay) ==
    GetSmallest(CylinderCaps(prim, objSpaceRay) \o CylinderBody(prim, objSpaceRay))

\* Cylinder::getObjSpaceNormal
CylinderObjSpaceNormal(prim, q) ==
    IF FLt(Abs(FSub(q[2], Half)), CapEps) THEN <<0, One, 0>>
    ELSE IF FLt(Abs(FAdd(q[2], Half)), CapEps) THEN <<0, -One, 0>>
    ELSE <<FMul(2 * One, q[1]), 0, FMul(2 * One, q[3])>>

\* virtual Primitive::getIntersectionT
GetIntersectionT(prim, objSpaceRay) ==
    CASE prim.type = "Sphere" -> SphereIntersectionT(prim, objSpaceRay)
      [] prim.type = "Cube" -> CubeIntersectionT(prim, objSpaceRay)
      [] prim.type = "Cone" -> ConeIntersectionT(prim, objSpaceRay)
      [] prim.type = "Cylinder" -> CylinderIntersectionT(prim, objSpaceRay)

\* virtual Primitive::getObjSpaceNormal
GetObjSpaceNormal(prim, q) ==
    CASE prim.type = "Sphere" -> SphereObjSpaceNormal(prim, q)
      [] prim.type = "Cube" -> CubeObjSpaceNormal(prim, q)
      [] prim.type = "Cone" -> ConeObjSpaceNormal(prim, q)
      [] prim.type = "Cylinder" -> CylinderObjSpaceNormal(prim, q)

----------------------------------------------------------------------------
(* Transforms.  A CTM is an affine map: m is the upper-left 3x3 block (a   *)
(* triple of rows) and tr the translation column.                          *)

Det3(m) ==
    FAdd(FSub(FMul(m[1][1], FSub(FMul(m[2][2], m[3][3]), FMul(m[2][3], m[3][2]))),
              FMul(m[1][2], FSub(FMul(m[2][1], m[3][3]), FMul(m[2][3], m[3][1])))),
         FMul(m[1][3], FSub(FMul(m[2][1], m[3][2]), FMul(m[2][2], m[3][1]))))

\* the cofactor of entry (i, j) of a 3x3 matrix
Cofactor(m, i, j) ==
    LET r1 == (i % 3) + 1
        r2 == ((i + 1) % 3) + 1
        c1 == (j % 3) + 1
        c2 == ((j + 1) % 3) + 1
    IN  FSub(FMul(m[r1][c1], m[r2][c2]), FMul(m[r1][c2], m[r2][c1]))

\* glm::inverse of a mat3: the adjugate times 1 / determinant
Inverse3(m) ==
    LET oneOverDeterminant == FDiv(One, Det3(m))
    IN  [i \in 1..3 |-> [j \in 1..3 |-> FMul(Cofactor(m, j, i), oneOverDeterminant)]]

\* glm::transpose
Transpose3(m) == [i \in 1..3 |-> [j \in 1..3 |-> m[j][i]]]

\* glm::inverse of the affine mat4
InverseCTM(ctm) ==
    LET inv == Inverse3(ctm.m)
    IN  [m |-> inv, tr |-> VNeg(MatVec(inv, ctm.tr))]

\* Primitive::applyCTM: the homogeneous coordinate is 0 for a vector
ApplyCTM(prim, objSpacePoint, isVector) ==
    IF isVector THEN MatVec(prim.ctm.m, objSpacePoint)
    ELSE VAdd(MatVec(prim.ctm.m, objSpacePoint), prim.ctm.tr)

\* an inverse transform that treats every argument as a point
ApplyInverseCTMAsPoint(prim, worldSpacePoint, isVector) ==
    VAdd(MatVec(prim.inverseCTM.m, worldSpacePoint), prim.inverseCTM.tr)

\* Primitive::applyInverseCTM
ApplyInverseCTM(prim, worldSpacePoint, isVector) ==
    IF isVector THEN MatVec(prim.inverseCTM.m, worldSpacePoint)
    ELSE VAdd(MatVec(prim.inverseCTM.m, worldSpacePoint), prim.inverseCTM.tr)

\* Primitive::getWorldSpaceNormal
GetWorldSpaceNormal(prim, objSpacePoint) ==
    Normalize(MatVec(prim.normalT, GetObjSpaceNormal(prim, objSpacePoint)))

\* Texture: the image of a file in row-major order with its width and height;
\* the pixels of the images here are numbered, so that two lookups agree only
\* when they read the same pixel
Texture(width, height) ==
    [width |-> width, height |-> height,
     imgData |-> [i \in 1..(width * height) |-> [r |-> i, g |-> i, b |-> i, a |-> 255]]]

\* Texture() = default: no image, width and height 0
DefaultTexture == [width |-> 0, height |-> 0, imgData |-> <<>>]

\* Primitive::Primitive and the constructors of the variants: the inverse
\* and the normal transform are computed once
MkPrimitive(type, radius, height, side, ctm, material) ==
    [type |-> type, radius |-> radius, height |-> height, side |-> side,
     ctm |-> ctm, inverseCTM |-> InverseCTM(ctm),
     normalT |-> Transpose3(Inverse3(ctm.m)),
     material |-> material, textureUsed |-> FALSE, texture |-> DefaultTexture,
     repeatU |-> 0, repeatV |-> 0]

\* Primitive::getMaterial
GetMaterial(prim) == prim.material

----------------------------------------------------------------------------
(* Colors                                                                  *)

\* a conversion without the clamp
NoClamp(x) == x

\* std::clamp(x, 0.f, 1.f)
Clamp01(x) == IF FLt(x, 0) THEN 0 ELSE IF FLt(One, x) THEN One ELSE x

\* the conversion of a float to std::uint8_t: the fraction is dropped and
\* eight bits are kept
ToByte(x) == (x \div One) % 256

\* toRGBA: alpha is the default member initializer 255
ToRGBA(illumination) ==
    [r |-> ToByte(FMul(255 * One, Clamp01(illumination[1]))),
     g |-> ToByte(FMul(255 * One, Clamp01(illumination[2]))),
     b |-> ToByte(FMul(255 * One, Clamp01(illumination[3]))),
     a |-> 255]

\* a conversion that reads the alpha channel for every color channel
RGBAtoSceneColorOpaque(color) ==
    <<FDiv(color.a * One, 255 * One), FDiv(color.a * One, 255 * One),
      FDiv(color.a * One, 255 * One)>>

\* RGBAtoSceneColor (the color channels)
RGBAtoSceneColor(color) ==
    <<FDiv(color.r * One, 255 * One), FDiv(color.g * One, 255 * One),
      FDiv(color.b * One, 255 * One)>>

Black == [r |-> 0, g |-> 0, b |-> 0, a |-> 255]

\* Primitive::getCircleU
CircleUOfAngle(theta) ==
    IF FLt(theta, 0) THEN FDiv(FNeg(theta), FMul(2 * One, Pi))
    ELSE FSub(One, FDiv(theta, FMul(2 * One, Pi)))
GetCircleU(a, b) == CircleUOfAngle(FAtan2(b, a))

\* Sphere::XYZtoUV
SphereUVOfV(XYZ, V) ==
    <<IF V = 0 \/ V = One THEN Half ELSE GetCircleU(XYZ[1], XYZ[3]), V>>
SphereXYZtoUV(prim, XYZ) ==
    SphereUVOfV(XYZ, FAdd(FDiv(FAsin(FDiv(XYZ[2], prim.radius)), Pi), Half))

\* Cube::XYZtoUV
CubeXYZtoUV(prim, XYZ) ==
    LET Face(a, b) == <<FAdd(FDiv(a, prim.side), Half), FAdd(FDiv(b, prim.side), Half)>>
    IN  IF FLt(Abs(FSub(XYZ[1], Half)), CubeEpsX) THEN Face(FNeg(XYZ[3]), XYZ[2])
        ELSE IF FLt(Abs(FAdd(XYZ[1], Half)), CubeEps) THEN Face(XYZ[3], XYZ[2])
        ELSE IF FLt(Abs(FSub(XYZ[2], Half)), CubeEps) THEN Face(XYZ[1], FNeg(XYZ[3]))
        ELSE IF FLt(Abs(FAdd(XYZ[2], Half)), CubeEps) THEN Face(XYZ[1], XYZ[3])
        ELSE IF FLt(Abs(FSub(XYZ[3], Half)), CubeEps) THEN Face(XYZ[1], XYZ[2])
        ELSE Face(FNeg(XYZ[1]), XYZ[2])

\* Cone::XYZtoUV
ConeXYZtoUV(prim, XYZ) ==
    IF FLt(Abs(FAdd(XYZ[2], FDiv(prim.height, 2 * One))), CapEps)
    THEN <<FAdd(XYZ[1], Half), FAdd(XYZ[3], Half)>>
    ELSE LET u == IF XYZ[2] = FDiv(prim.height, 2 * One) THEN Half
                  ELSE GetCircleU(XYZ[1], XYZ[3])
         IN  <<u, FAdd(XYZ[2], Half)>>

\* Cylinder::XYZtoUV
CylinderXYZtoUV(prim, XYZ) ==
    IF FLt(Abs(FSub(XYZ[2], Half)), CapEps)
    THEN <<FAdd(XYZ[1], Half), FAdd(FNeg(XYZ[3]), Half)>>
    ELSE IF FLt(Abs(FAdd(XYZ[2], Half)), CapEps)
    THEN <<FAdd(XYZ[1], Half), FAdd(XYZ[3], Half)>>
    ELSE <<GetCircleU(XYZ[1], XYZ[3]), FAdd(XYZ[2], Half)>>

\* Primitive::XYZtoUV (virtual dispatch)
XYZtoUV(prim, XYZ) ==
    CASE prim.type = "Sphere" -> SphereXYZtoUV(prim, XYZ)
      [] prim.type = "Cube" -> CubeXYZtoUV(prim, XYZ)
      [] prim.type = "Cone" -> ConeXYZtoUV(prim, XYZ)
      [] prim.type = "Cylinder" -> CylinderXYZtoUV(prim, XYZ)

\* glm::clamp(x, 0.f, 1.f) is min(max(x, 0), 1), glm::max(x, y) being
\* (x < y) ? y : x and glm::min(x, y) being (y < x) ? y : x
GlmClamp01(x) == FMin(FMax(x, 0), One)

\* Primitive::getTexture, line 158: the UV handed to getTextureColorAtUV
ClampedUV(uv) == <<GlmClamp01(uv[1]), GlmClamp01(uv[2])>>
TextureUV(prim, surfacePointObjSpace) == ClampedUV(XYZtoUV(prim, surfacePointObjSpace))

\* floor of a finite float
FFloor(x) == IF IsFinite(x) THEN (x \div One) * One ELSE x

IntMin == -2147483647 - 1

\* (int) of a float: the integer of a finite value; of NaN or an infinity the
\* conversion is undefined, and the builds produce INT_MIN (x86) or 0 (ARM)
FloatToInt(x) == IF IsFinite(x) THEN {Sign(x) * (Abs(x) \div One)} ELSE {IntMin, 0}

\* a % b of two ints, b > 0: the remainder has the sign of a
CRem(a, b) == IF a < 0 /\ a % b # 0 THEN (a % b) - b ELSE a % b

\* one axis of the lookup without the modulo
ImgAxisClippedOnly(x, repeat, size) ==
    { IF n < size - 1 THEN n ELSE size - 1 :
        n \in FloatToInt(FFloor(FMul(FMul(x, repeat * One), size * One))) }

\* Texture::UVtoImgCoord, one axis (lines 38-41 and 42-45):
\* std::min((int) floor(x * repeat * size) % size, size - 1)
ImgAxis(x, repeat, size) ==
    { IF CRem(n, size) < size - 1 THEN CRem(n, size) ELSE size - 1 :
        n \in FloatToInt(FFloor(FMul(FMul(x, repeat * One), size * One))) }

\* Texture::UVtoImgCoord: the (row, col) the call can return; with an empty
\* image the modulo divides by zero, which is undefined: a fault
UVtoImgCoord(tex, UV, repeatU, repeatV) ==
    IF tex.height = 0 \/ tex.width = 0
    THEN {[fault |-> TRUE, row |-> 0, col |-> 0]}
    ELSE {[fault |-> FALSE, row |-> row, col |-> col] :
            row \in ImgAxis(FSub(One, UV[2]), repeatV, tex.height),
            col \in ImgAxis(UV[1], repeatU, tex.width)}

\* Texture::getTextureColorAtUV: m_imgData[row*m_width + col]; an index
\* outside the image is an undefined read: a fault, whatever it returns (a
\* row or col of the size of INT_MIN is far outside, and stands as -1)
GetTextureColorAtUV(tex, UV, repeatU, repeatV) ==
    { LET small(n) == n > -65536 /\ n < 65536
          index == IF small(c.row) /\ small(c.col)
                   THEN c.row * tex.width + c.col ELSE -1
      IN  IF c.fault \/ index \notin 0..(Len(tex.imgData) - 1)
          THEN [fault |-> TRUE, row |-> c.row, col |-> c.col, index |-> index,
                color |-> Black]
          ELSE [fault |-> FALSE, row |-> c.row, col |-> c.col, index |-> index,
                color |-> tex.imgData[index + 1]] :
        c \in UVtoImgCoord(tex, UV, repeatU, repeatV) }

\* Primitive::getTexture, lines 158-160: the image is read at the UV and the
\* colour is scaled to [0, 1]
TextureAtUV(prim, uv) ==
    { [uvComputed |-> TRUE, indexed |-> TRUE, fault |-> t.fault, uv |-> uv,
       index |-> t.index, color |-> RGBAtoSceneColor(t.color),
       alpha |-> FDiv(t.color.a * One, 255 * One)] :
        t \in GetTextureColorAtUV(prim.texture, uv, prim.repeatU, prim.repeatV) }

\* the call of getTexture without the test of isUsed
GetTextureAlwaysLooksUp(prim, surfacePointObjSpace) ==
    TextureAtUV(prim, TextureUV(prim, surfacePointObjSpace))

\* Primitive::getTexture: what a call does and returns. Without a used
\* texture it returns vec4(0,0,0,1) at once; otherwise it computes the clamped
\* UV and reads the image there
GetTexture(prim, surfacePointObjSpace) ==
    IF ~prim.textureUsed
    THEN {[uvComputed |-> FALSE, indexed |-> FALSE, fault |-> FALSE,
           uv |-> <<0, 0>>, index |-> 0, color |-> <<0, 0, 0>>, alpha |-> One]}
    ELSE TextureAtUV(prim, TextureUV(prim, surfacePointObjSpace))

----------------------------------------------------------------------------
(* Light (point and directional lights)                                    *)

\* Light::getType
GetType(light) == light.type

\* Light::getDirToLight
GetDirToLight(light, currPosition) ==
    IF light.type = "Point" THEN Normalize(VSub(light.pos, currPosition))
    ELSE Normalize(VNeg(light.dir))

\* Light::getColor for a light that is no spot light
GetColor(light, currPosition) == light.color

\* Light::attenuationFn
AttenuationFn(light, distToLight) ==
    FMin(One, FDiv(One, FAdd(FAdd(light.function[1],
                                  FMul(distToLight, light.function[2])),
                             FMul(Sq(distToLight), light.function[3]))))

----------------------------------------------------------------------------
(* RayTracer: traceRay and phong as a stack machine.  The top of the call  *)
(* stack is the last element of stack.  A traceRay frame holds the ray it  *)
(* was passed by reference; its caller reads the recorded tHit back when   *)
(* the frame returns.                                                      *)

\* RayTracer::m_maxRecursionDepth
MaxRecursionDepth == 4
\* the recursion depth phong passes for a shadow ray
ShadowDepth == -1
\* the offsets of the shadow ray (0.001f) and of the reflection ray (0.0001f)
ShadowEps == One \div 1000
ReflectEps == One \div 10000

Top == stack[Len(stack)]
Below == stack[Len(stack) - 1]
Pop == SubSeq(stack, 1, Len(stack) - 1)
ReplaceTop(f) == [stack EXCEPT ![Len(stack)] = f]
NumPrimitives == Len(scene.primitives)
NumLights == Len(scene.lights)

\* traceRay, lines 73-74: the index and the hit point start unassigned
\* (hitIdx 0); reflected counts the reflection rays spawned below the frame,
\* calls the calls of phong and traceRay made by this call and below it
TraceFrame(ray, depth) ==
    [fn |-> "traceRay", ray |-> ray, depth |-> depth, i |-> 1, hitIdx |-> 0,
     objHit |-> <<0, 0, 0>>, currT |-> Infinity, pc |-> "scan",
     color |-> Black, reflected |-> 0,
     calls |-> [phong |-> 0, probe |-> IF depth = ShadowDepth THEN 1 ELSE 0,
                trace |-> 1]]

\* the stack with a call counted in every traceRay call that is running: a
\* call of phong, or one of traceRay for a shadow probe or a reflection ray
CountCall(frames, phong, probe, trace) ==
    [k \in 1..Len(frames) |->
        IF frames[k].fn = "traceRay"
        THEN [frames[k] EXCEPT !.calls = [phong |-> @.phong + phong,
                                          probe |-> @.probe + probe,
                                          trace |-> @.trace + trace]]
        ELSE frames[k]]

\* an object-space ray that keeps the world-space direction
ObjSpaceRayWorldDir(prim, worldSpaceRay) ==
    Ray(worldSpaceRay.dir, ApplyInverseCTM(prim, worldSpaceRay.pos, FALSE))

\* traceRay, lines 79-82: the ray in the object space of a primitive
ObjSpaceRay(prim, worldSpaceRay) ==
    Ray(ApplyInverseCTM(prim, worldSpaceRay.dir, TRUE),
        ApplyInverseCTM(prim, worldSpaceRay.pos, FALSE))

\* a scan that keeps the last hit in front of the origin, nearer or not
ScanAcceptsAnyPositive(currT, tHit) == FGt(currT, 0)

\* a scan that keeps any smaller value, behind the origin or not
ScanAcceptsAnyNearer(currT, tHit) == FLt(currT, tHit)

\* traceRay, line 87: is currT a valid, nearer intersection
ScanAccepts(currT, tHit) == FGt(currT, 0) /\ FLt(currT, tHit)

\* a shading test that forgets the shadow-ray sentinel
ShouldShadeAnyDepth(depth, tHit) == FGt(tHit, 0) /\ FLt(tHit, Infinity)

\* a shading test without the test of tHit
ShouldShadeUnguarded(depth, tHit) == depth # ShadowDepth

\* traceRay, line 96: the ray is no shadow ray and an intersection exists
ShouldShade(depth, tHit) ==
    depth # ShadowDepth /\ FGt(tHit, 0) /\ FLt(tHit, Infinity)

\* an occlusion test with the comparison the wrong way round
OccludedReversed(tHit, distToLight) == FLt(distToLight, tHit)

\* phong, line 163: the light is hidden from the shaded point
Occluded(tHit, distToLight) == FLt(tHit, distToLight)

\* a depth test that lets one more level through
ShouldReflectOffByOne(depth) == depth <= MaxRecursionDepth

\* a depth test that also consults the refraction toggle of the Config
ShouldReflectUnlessRefraction(depth) ==
    depth < MaxRecursionDepth /\ ~rend.config.enableRefraction

\* phong, line 185: a reflection ray is traced
ShouldReflect(depth) == depth < MaxRecursionDepth

\* phong, line 154
DistToLight(light, position) ==
    IF GetType(light) = "Directional" THEN Infinity
    ELSE Length(VSub(light.pos, position))

\* phong, line 156
Attenuation(light, distToLight) ==
    IF GetType(light) = "Directional" THEN One
    ELSE AttenuationFn(light, distToLight)

RECURSIVE Pow(_, _)
\* std::pow with a whole exponent
Pow(x, n) == IF n = 0 THEN One ELSE FMul(x, Pow(x, n - 1))

\* phong, lines 174-175: the diffuse term of one light
DiffuseTerm(f, light) ==
    LET lightColor == GetColor(light, f.point)
        NdotL == Dot(f.normal, f.dirToLight)
        diffuseColor == VAdd(VScale(f.material.blend, f.textureColor),
                             VScale(FSub(One, f.material.blend),
                                    VScale(scene.globalData.kd, f.material.cDiffuse)))
    IN  VScale(NdotL, VScale(f.fAtt, VMul(lightColor, diffuseColor)))

\* phong, lines 178-180: the specular term of one light
SpecularTerm(f, light) ==
    LET lightColor == GetColor(light, f.point)
        reflectedLightDirection == Reflect(VNeg(f.dirToLight), f.normal)
        RdotV == FMax(0, Dot(reflectedLightDirection, f.toCamera))
    IN  VScale(Pow(RdotV, f.material.shininess),
               VScale(f.fAtt, VMul(VScale(scene.globalData.ks, lightColor),
                                   f.material.cSpecular)))

\* a light loop without the test of dot(normal, directionToLight)
AfterLightAnyFacing(f, light, shadowT) ==
    IF Occluded(shadowT, f.distToLight) THEN f.illum
    ELSE VAdd(VAdd(f.illum, DiffuseTerm(f, light)), SpecularTerm(f, light))

\* phong, lines 163-181: the illumination after the shadow test of one light
AfterLight(f, light, shadowT) ==
    IF Occluded(shadowT, f.distToLight) THEN f.illum
    ELSE IF FGt(Dot(f.normal, f.dirToLight), 0)
         THEN VAdd(VAdd(f.illum, DiffuseTerm(f, light)), SpecularTerm(f, light))
         ELSE f.illum

\* phong, lines 141-149: the frame on entry, with the ambient term
PhongFrame(position, normal, directionToCamera, material, textureColor, depth) ==
    [fn |-> "phong", point |-> position, normal |-> Normalize(normal),
     toCamera |-> Normalize(directionToCamera), material |-> material,
     textureColor |-> textureColor, depth |-> depth, li |-> 1,
     illum |-> VScale(scene.globalData.ka, material.cAmbient),
     dirToLight |-> <<0, 0, 0>>, distToLight |-> 0, fAtt |-> 0,
     pc |-> IF NumLights = 0 THEN "reflect" ELSE "lights", color |-> Black]

----------------------------------------------------------------------------
(* The scenes and the primary rays the tracer is run on.                   *)

\* the most primitives and lights of a scene
MaxPrimitives == 2
MaxLights == 2

Identity3 == <<(<<One, 0, 0>>), (<<0, One, 0>>), (<<0, 0, One>>)>>
Scaling(k) == <<(<<k, 0, 0>>), (<<0, k, 0>>), (<<0, 0, k>>)>>
Translation(x, y, z) == [m |-> Identity3, tr |-> <<x, y, z>>]

Gray(k) == <<k, k, k>>
Mirror == [cAmbient |-> Gray(One \div 10), cDiffuse |-> <<Half, 0, 0>>,
           cSpecular |-> Gray(One), cReflective |-> Gray(One),
           shininess |-> 2, blend |-> 0]
Matte == [cAmbient |-> Gray(One \div 5), cDiffuse |-> <<0, Half, One>>,
          cSpecular |-> Gray(Half), cReflective |-> Gray(0),
          shininess |-> 1, blend |-> 0]

\* a sphere above the first cube, two facing cubes on the z axis and a cone
\* of twice the unit size in front of the second cube
Catalog ==
    << MkPrimitive("Sphere", Half, 0, 0, Translation(0, 2 * One, 3 * One), Matte),
       MkPrimitive("Cube", 0, 0, One, Translation(0, 0, 3 * One), Mirror),
       MkPrimitive("Cube", 0, 0, One, Translation(0, 0, -3 * One), Mirror),
       MkPrimitive("Cone", Half, One, 0,
                   [m |-> Scaling(2 * One), tr |-> <<0, 0, -3 * Half>>], Matte) >>

LightCatalog ==
    << [type |-> "Point", pos |-> <<0, 4 * One, 3 * One>>, dir |-> <<0, 0, 0>>,
        color |-> Gray(One), function |-> <<One, 0, 0>>],
       [type |-> "Point", pos |-> <<0, One, 3 * One>>, dir |-> <<0, 0, 0>>,
        color |-> Gray(One), function |-> <<Half, 0, Half>>],
       [type |-> "Directional", pos |-> <<0, 0, 0>>, dir |-> <<0, -One, 0>>,
        color |-> Gray(Half), function |-> <<One, 0, 0>>] >>

RECURSIVE Pick(_, _)
\* the elements of a catalog at the indices of a set, in catalog order
Pick(cat, idx) ==
    IF idx = {} THEN <<>>
    ELSE LET k == CHOOSE x \in idx : \A y \in idx : x >= y
         IN  Append(Pick(cat, idx \ {k}), cat[k])

Scenes ==
    { [primitives |-> Pick(Catalog, ps), lights |-> Pick(LightCatalog, ls),
       globalData |-> [ka |-> Half, kd |-> One, ks |-> One]] :
      ps \in { x \in SUBSET (1..Len(Catalog)) : Cardinality(x) <= MaxPrimitives },
      ls \in { x \in SUBSET (1..Len(LightCatalog)) : Cardinality(x) <= MaxLights } }

\* the world-space rays render builds (line 32), one per pixel
PrimaryRays ==
    { Ray(<<0, 0, One>>, <<0, 0, 0>>),
      Ray(<<0, 0, -One>>, <<0, 0, 0>>),
      Ray(<<-One, -One, 0>>, <<One, 3 * Half, 3 * One>>),
      Ray(<<0, -One, 0>>, <<0, 5 * One, 3 * One>>) }

----------------------------------------------------------------------------
(* The actions.                                                            *)

Idle == [pc |-> "idle"]
\* render has not been called
NoRender == [pass |-> 0]

Init ==
    /\ scene \in Scenes
    /\ stack = <<>>
    /\ pixel = Black
    /\ phase = "idle"
    /\ geo = Idle
    /\ rend = NoRender

\* render, lines 32-35: a primary ray is traced at recursion depth 0
RenderPixel ==
    /\ phase = "idle"
    /\ \E ray \in PrimaryRays : stack' = <<TraceFrame(ray, 0)>>
    /\ phase' = "tracing"
    /\ UNCHANGED <<scene, pixel, geo, rend>>

\* traceRay, lines 76-93: one iteration of the loop over the primitives
ScanStep ==
    /\ stack # <<>>
    /\ Top.fn = "traceRay" /\ Top.pc = "scan" /\ Top.i <= NumPrimitives
    /\ LET f == Top
           currPrimitive == scene.primitives[f.i]
           objSpaceRay == ObjSpaceRay(currPrimitive, f.ray)
           currT == GetIntersectionT(currPrimitive, objSpaceRay)
       IN  stack' = ReplaceTop(
               IF ScanAccepts(currT, f.ray.t)
               THEN [f EXCEPT !.objHit = GetPos(objSpaceRay, currT),
                              !.hitIdx = f.i,
                              !.ray = SetIntersectionT(f.ray, currT),
                              !.currT = currT,
                              !.i = f.i + 1]
               ELSE [f EXCEPT !.currT = currT, !.i = f.i + 1])
    /\ UNCHANGED <<scene, pixel, phase, geo, rend>>

\* traceRay, lines 96-113: the hit is shaded.  An index that was never
\* assigned is an indeterminate value: any position of the list
Shade ==
    /\ stack # <<>>
    /\ Top.fn = "traceRay" /\ Top.pc = "scan" /\ Top.i > NumPrimitives
    /\ ShouldShade(Top.depth, Top.ray.t)
    /\ \E idx \in (IF Top.hitIdx = 0 THEN 1..NumPrimitives ELSE {Top.hitIdx}) :
       \E texture \in GetTexture(scene.primitives[idx], Top.objHit) :
         LET f == Top
             prim == scene.primitives[idx]
             worldNormal == GetWorldSpaceNormal(prim, f.objHit)
             worldIntersection == GetIntersectionPoint(f.ray)
             dirToCamera == VNeg(f.ray.dir)
         IN  stack' = Append(CountCall(ReplaceTop([f EXCEPT !.pc = "shading"]), 1, 0, 0),
                             PhongFrame(worldIntersection, worldNormal, dirToCamera,
                                        GetMaterial(prim), texture.color, f.depth))
    /\ UNCHANGED <<scene, pixel, phase, geo, rend>>

\* traceRay, line 115: a shadow ray, or no intersection: black
ReturnBlack ==
    /\ stack # <<>>
    /\ Top.fn = "traceRay" /\ Top.pc = "scan" /\ Top.i > NumPrimitives
    /\ ~ShouldShade(Top.depth, Top.ray.t)
    /\ stack' = ReplaceTop([Top EXCEPT !.pc = "ret", !.color = Black])
    /\ UNCHANGED <<scene, pixel, phase, geo, rend>>

\* phong, lines 151-162: the shadow ray of the next light is traced
CastShadowRay ==
    /\ stack # <<>>
    /\ Top.fn = "phong" /\ Top.pc = "lights"
    /\ LET f == Top
           light == scene.lights[f.li]
           directionToLight == GetDirToLight(light, f.point)
           distToLight == DistToLight(light, f.point)
           shadowRayOrigin == VAdd(f.point, VScale(ShadowEps, directionToLight))
           shadowRayWorldSpace == Ray(directionToLight, shadowRayOrigin)
       IN  stack' = Append(CountCall(ReplaceTop([f EXCEPT !.pc = "shadow",
                                                !.dirToLight = directionToLight,
                                                !.distToLight = distToLight,
                                                !.fAtt = Attenuation(light, distToLight)]),
                                     0, 1, 1),
                           TraceFrame(shadowRayWorldSpace, ShadowDepth))
    /\ UNCHANGED <<scene, pixel, phase, geo, rend>>

\* phong, lines 162-182: the shadow ray is back; the light is skipped when
\* it is occluded, and adds its terms when the normal faces it
ShadowReturn ==
    /\ Len(stack) >= 2
    /\ Top.fn = "traceRay" /\ Top.pc = "ret"
    /\ Below.fn = "phong" /\ Below.pc = "shadow"
    /\ LET f == Below
           light == scene.lights[f.li]
       IN  stack' = Append(SubSeq(stack, 1, Len(stack) - 2),
                           [f EXCEPT !.illum = AfterLight(f, light, Top.ray.t),
                                     !.li = f.li + 1,
                                     !.pc = IF f.li + 1 > NumLights
                                            THEN "reflect" ELSE "lights"])
    /\ UNCHANGED <<scene, pixel, phase, geo, rend>>

\* phong, lines 185-191: the reflection ray is traced one level deeper
SpawnReflection ==
    /\ stack # <<>>
    /\ Top.fn = "phong" /\ Top.pc = "reflect"
    /\ ShouldReflect(Top.depth)
    /\ LET f == Top
           reflectedViewDirection == Reflect(VNeg(f.toCamera), f.normal)
           reflectionRay ==
               Ray(reflectedViewDirection,
                   VAdd(f.point, VScale(ReflectEps, reflectedViewDirection)))
           counted == [k \in 1..Len(stack) |->
                          IF stack[k].fn = "traceRay"
                          THEN [stack[k] EXCEPT !.reflected = @ + 1,
                                                !.calls.trace = @ + 1]
                          ELSE IF k = Len(stack) THEN [f EXCEPT !.pc = "reflecting"]
                          ELSE stack[k]]
       IN  stack' = Append(counted, TraceFrame(reflectionRay, f.depth + 1))
    /\ UNCHANGED <<scene, pixel, phase, geo, rend>>

\* phong, lines 185, 197-198: the depth limit is reached, no reflection
NoReflection ==
    /\ stack # <<>>
    /\ Top.fn = "phong" /\ Top.pc = "reflect"
    /\ ~ShouldReflect(Top.depth)
    /\ stack' = ReplaceTop([Top EXCEPT !.pc = "ret", !.color = ToRGBA(Top.illum)])
    /\ UNCHANGED <<scene, pixel, phase, geo, rend>>

\* phong, lines 191-198: the reflection ray is back and its color is added
ReflectionReturn ==
    /\ Len(stack) >= 2
    /\ Top.fn = "traceRay" /\ Top.pc = "ret"
    /\ Below.fn = "phong" /\ Below.pc = "reflecting"
    /\ LET f == Below
           reflectionColor == RGBAtoSceneColor(Top.color)
           total == VAdd(f.illum,
                         VMul(VScale(scene.globalData.ks, f.material.cReflective),
                              reflectionColor))
       IN  stack' = Append(SubSeq(stack, 1, Len(stack) - 2),
                           [f EXCEPT !.illum = total, !.pc = "ret",
                                     !.color = ToRGBA(total)])
    /\ UNCHANGED <<scene, pixel, phase, geo, rend>>

\* traceRay, line 103: phong is back and traceRay returns its color
PhongReturn ==
    /\ Len(stack) >= 2
    /\ Top.fn = "phong" /\ Top.pc = "ret"
    /\ Below.fn = "traceRay" /\ Below.pc = "shading"
    /\ stack' = Append(SubSeq(stack, 1, Len(stack) - 2),
                       [Below EXCEPT !.pc = "ret", !.color = Top.color])
    /\ UNCHANGED <<scene, pixel, phase, geo, rend>>

\* render, line 35: the color of the primary ray is stored in the image
StorePixel ==
    /\ Len(stack) = 1
    /\ Top.fn = "traceRay" /\ Top.pc = "ret"
    /\ pixel' = Top.color
    /\ stack' = <<>>
    /\ phase' = "done"
    /\ UNCHANGED <<scene, geo, rend>>

Next ==
    \/ RenderPixel
    \/ ScanStep
    \/ Shade
    \/ ReturnBlack
    \/ CastShadowRay
    \/ ShadowReturn
    \/ SpawnReflection
    \/ NoReflection
    \/ ReflectionReturn
    \/ PhongReturn
    \/ StorePixel

Spec == Init /\ [][Next]_vars

----------------------------------------------------------------------------
(* RayTracer::render: the loop over the pixels of the image.  A RayTracer  *)
(* is constructed with a Config and renders the scene into a buffer; a     *)
(* second RayTracer with another Config then renders the same scene into a *)
(* second buffer.                                                          *)

\* the largest image
MaxWidth == 2
MaxHeight == 2

\* RayTracer::Config
ToggleNames ==
    {"enableShadow", "enableReflection", "enableRefraction", "enableTextureMap",
     "enableTextureFilter", "enableParallelism", "enableSuperSample",
     "enableAcceleration", "enableDepthOfField"}
\* the Config whose toggles in on are true and the others false
ConfigOf(on) == [f \in ToggleNames |-> f \in on]
\* the default member initializers: every toggle is off
DefaultConfig == ConfigOf({})
\* the toggles other than shadow and reflection
OtherToggles == ToggleNames \ {"enableShadow", "enableReflection"}
\* the Configs the second RayTracer is constructed with
Configs ==
    { ConfigOf(on) : on \in { {}, OtherToggles, {"enableRefraction"},
                              {"enableShadow", "enableReflection"}, ToggleNames } }

\* glm::cross
Cross(a, b) ==
    << FSub(FMul(a[2], b[3]), FMul(a[3], b[2])),
       FSub(FMul(a[3], b[1]), FMul(a[1], b[3])),
       FSub(FMul(a[1], b[2]), FMul(a[2], b[1])) >>

\* Camera::Camera and Camera::constructBasisVectors
MkCamera(cameraData, imgWidth, imgHeight) ==
    LET aspectRatio == FDiv(imgWidth * One, imgHeight * One)
        w == Normalize(VNeg(cameraData.look))
        vertical == VSub(cameraData.up, VScale(Dot(cameraData.up, w), w))
        v == Normalize(vertical)
    IN  [aspectRatio |-> aspectRatio, heightAngle |-> cameraData.heightAngle,
         widthAngle |-> FMul(cameraData.heightAngle, aspectRatio),
         pos |-> cameraData.pos, u |-> Cross(v, w), v |-> v, w |-> w]

\* Camera::getCameraMatrix applied to a direction (homogeneous coordinate 0)
CameraMatrixTimes(camera, x) ==
    VAdd(VAdd(VScale(x[1], camera.u), VScale(x[2], camera.v)), VScale(x[3], camera.w))

\* RayTraceScene::RayTraceScene
MkScene(width, height, metaData) ==
    [primitives |-> metaData.shapes, lights |-> metaData.lights,
     globalData |-> metaData.globalData, width |-> width, height |-> height,
     camera |-> MkCamera(metaData.cameraData, width, height)]

\* getViewPlaneCoords, line 54
XNormalized(col, width) == FSub(FDiv(col * One + Half, width * One), Half)

\* a y that grows with the row
YNormalizedUnflipped(row, height) ==
    FSub(FDiv(row * One + Half, height * One), Half)

\* getViewPlaneCoords, line 55
YNormalized(row, height) ==
    FSub(FDiv(height * One - row * One - Half, height * One), Half)

\* RayTracer::getViewPlaneCoords
GetViewPlaneCoords(row, col, k, sc) ==
    LET camera == sc.camera
        viewplaneWidth ==
            FMul(FMul(2 * One, k), FTan(FDiv(camera.widthAngle, 2 * One)))
        viewplaneHeight ==
            FMul(FMul(2 * One, k), FTan(FDiv(camera.heightAngle, 2 * One)))
        xNormalized == XNormalized(col, sc.width)
        yNormalized == YNormalized(row, sc.height)
    IN  <<FMul(xNormalized, viewplaneWidth), FMul(yNormalized, viewplaneHeight),
          FNeg(k)>>

\* render, lines 24-30: the world-space direction through a pixel
PrimaryRayDir(row, col) ==
    CameraMatrixTimes(scene.camera, GetViewPlaneCoords(row, col, One, scene))

\* a primary ray built in the storage of the ray of the pixel before, with
\* the tHit that ray was left with
PrimaryRayReused(row, col) ==
    SetIntersectionT(Ray(PrimaryRayDir(row, col), scene.camera.pos), rend.lastT)

\* render, line 32: the ray of a pixel, constructed anew
PrimaryRay(row, col) == Ray(PrimaryRayDir(row, col), scene.camera.pos)

\* a buffer filled column by column
PixelIndexColumnMajor(row, col, width) == row + col * width

\* render, line 35: the position of a pixel in imageData
PixelIndex(row, col, width) == col + row * width

\* a camera at the origin that looks down the negative z axis, 45 degrees high
CameraAtOrigin ==
    [pos |-> <<0, 0, 0>>, look |-> <<0, 0, -One>>, up |-> <<0, One, 0>>,
     heightAngle |-> Pi \div 4]

\* a mirror wall in front of the camera and one behind it
FrontWall(material) ==
    MkPrimitive("Cube", 0, 0, One,
                [m |-> Scaling(4 * One), tr |-> <<0, 0, -4 * One>>], material)
BackWall ==
    MkPrimitive("Cube", 0, 0, One,
                [m |-> Scaling(4 * One), tr |-> <<0, 0, 4 * One>>], Mirror)
\* a sphere behind the camera, between the front wall and the light
Occluder ==
    MkPrimitive("Sphere", Half, 0, 0, Translation(0, 0, 3 * Half), Matte)
LightBehind ==
    [type |-> "Point", pos |-> <<0, 0, 3 * One>>, dir |-> <<0, 0, 0>>,
     color |-> Gray(One), function |-> <<One, 0, 0>>]

\* the scene files: two facing mirrors in the dark; a wall behind the camera
\* only, in the dark; a lit mirror wall whose light is hidden by a sphere
MetaData ==
    { [shapes |-> <<FrontWall(Mirror), BackWall>>, lights |-> <<>>,
       globalData |-> [ka |-> 0, kd |-> One, ks |-> One],
       cameraData |-> CameraAtOrigin],
      [shapes |-> <<BackWall>>, lights |-> <<>>,
       globalData |-> [ka |-> 0, kd |-> One, ks |-> One],
       cameraData |-> CameraAtOrigin],
      [shapes |-> <<FrontWall(Mirror), Occluder>>, lights |-> <<LightBehind>>,
       globalData |-> [ka |-> Half, kd |-> One, ks |-> One],
       cameraData |-> CameraAtOrigin] }

RenderScenes ==
    { MkScene(width, height, metaData) :
        width \in 1..MaxWidth, height \in 1..MaxHeight, metaData \in MetaData }

\* what the caller's buffer holds before a render: nothing render wrote
Unwritten == [r |-> 0, g |-> 0, b |-> 0, a |-> 0]

\* the state of a render that is about to start
StartRender(pass, config, previous, lastT) ==
    [pass |-> pass, config |-> config, row |-> 0, col |-> 0,
     image |-> [k \in 1..(scene.width * scene.height) |-> Unwritten],
     writes |-> <<>>, previous |-> previous, lastT |-> lastT]

InitRender ==
    /\ scene \in RenderScenes
    /\ stack = <<>>
    /\ pixel = Black
    /\ phase = "render"
    /\ geo = Idle
    /\ rend = StartRender(1, DefaultConfig, <<>>, Infinity)

\* render, lines 21-35: the next pixel's ray is built and traced at depth 0
BeginPixel ==
    /\ phase = "render"
    /\ stack = <<>>
    /\ rend.row < scene.height
    /\ stack' = <<TraceFrame(PrimaryRay(rend.row, rend.col), 0)>>
    /\ UNCHANGED <<scene, pixel, phase, geo, rend>>

\* render, lines 21-22, 35: the color is stored and the loops advance
WritePixel ==
    /\ phase = "render"
    /\ Len(stack) = 1
    /\ Top.fn = "traceRay" /\ Top.pc = "ret"
    /\ LET idx == PixelIndex(rend.row, rend.col, scene.width)
           lastCol == rend.col + 1 = scene.width
       IN  rend' = [rend EXCEPT
                       !.image = [k \in DOMAIN rend.image |->
                                     IF k = idx + 1 THEN Top.color ELSE rend.image[k]],
                       !.writes = Append(@, idx),
                       !.col = IF lastCol THEN 0 ELSE rend.col + 1,
                       !.row = IF lastCol THEN rend.row + 1 ELSE rend.row,
                       !.lastT = Top.ray.t]
    /\ stack' = <<>>
    /\ UNCHANGED <<scene, pixel, phase, geo>>

\* RayTracer::RayTracer, then render: another RayTracer renders the scene
SecondRender ==
    /\ phase = "render"
    /\ rend.pass = 1
    /\ rend.row = scene.height
    /\ \E config \in Configs :
         rend' = StartRender(2, config, rend.image, rend.lastT)
    /\ UNCHANGED <<scene, stack, pixel, phase, geo>>

NextRender ==
    \/ BeginPixel
    \/ ScanStep
    \/ Shade
    \/ ReturnBlack
    \/ CastShadowRay
    \/ ShadowReturn
    \/ SpawnReflection
    \/ NoReflection
    \/ ReflectionReturn
    \/ PhongReturn
    \/ WritePixel
    \/ SecondRender

SpecRender == InitRender /\ [][NextRender]_vars

----------------------------------------------------------------------------
(* Properties of the tracer, checked under Spec.                           *)

TraceFrames == { k \in 1..Len(stack) : stack[k].fn = "traceRay" }
PhongFrames == { k \in 1..Len(stack) : stack[k].fn = "phong" }

\* C1: reflection recursion is bounded.  No traceRay call has a depth above
\* maxRecursionDepth; a traceRay call made by phong for a reflection is one
\* level deeper than the traceRay call that is being shaded; and below a
\* call at depth d >= 0 at most maxRecursionDepth - d reflection rays are
\* spawned.
RecursionBounded ==
    \A k \in TraceFrames :
        /\ stack[k].depth <= MaxRecursionDepth
        /\ stack[k].depth >= 0 =>
               stack[k].reflected <= MaxRecursionDepth - stack[k].depth
        /\ (k > 1 /\ stack[k].depth # ShadowDepth) =>
               /\ stack[k - 1].fn = "phong" /\ stack[k - 1].pc = "reflecting"
               /\ stack[k - 2].fn = "traceRay"
               /\ stack[k].depth = stack[k - 2].depth + 1
        /\ k = 1 => stack[k].depth = 0

\* the recursion has gone all the way down: a ray at the depth limit, the
\* primary ray having seen maxRecursionDepth reflections below it
DepthLimitReached ==
    /\ Len(stack) > 1
    /\ Top.fn = "phong" /\ Top.depth = MaxRecursionDepth /\ Top.pc = "ret"
    /\ stack[1].reflected = MaxRecursionDepth

\* C2: a shadow probe (depth -1) is never shaded: no phong call carries the
\* probe's depth, nothing is ever called from a probe (it stays on top of the
\* stack, spawns no reflection ray and no further probe), and it returns
\* black.
ShadowProbeInert ==
    /\ \A k \in PhongFrames : stack[k].depth # ShadowDepth
    /\ \A k \in TraceFrames :
           stack[k].depth = ShadowDepth =>
               /\ k = Len(stack)
               /\ stack[k].pc \in {"scan", "ret"}
               /\ stack[k].reflected = 0
               /\ stack[k].pc = "ret" => stack[k].color = Black

\* a shadow probe has hit a primitive and returned
ShadowProbeHit ==
    /\ stack # <<>>
    /\ Top.fn = "traceRay" /\ Top.depth = ShadowDepth /\ Top.pc = "ret"
    /\ FLt(Top.ray.t, Infinity) /\ Top.hitIdx > 0

SameRay(f, g) == f.fn = "traceRay" /\ g.fn = "traceRay"
                 /\ f.ray.dir = g.ray.dir /\ f.ray.pos = g.ray.pos
                 /\ f.depth = g.depth

\* C3: while traceRay scans the primitives the recorded tHit of its ray never
\* increases, and it is always +infinity or strictly positive.
THitMonotone ==
    /\ [](\A k \in TraceFrames :
              stack[k].ray.t = Infinity
              \/ (IsFinite(stack[k].ray.t) /\ stack[k].ray.t > 0))
    /\ [][\A k \in 1..Len(stack) :
              (k <= Len(stack') /\ SameRay(stack[k], stack'[k]))
                  => FLe(stack'[k].ray.t, stack[k].ray.t)]_vars

\* the scan has kept a hit and then turned down a farther one
FartherHitRejected ==
    /\ stack # <<>>
    /\ Top.fn = "traceRay" /\ Top.pc = "scan" /\ Top.i > 2
    /\ IsFinite(Top.currT) /\ Top.currT > Top.ray.t
    /\ Top.hitIdx < Top.i - 1

\* the value getIntersectionT returns for primitive k and a world-space ray
HitOf(k, ray) ==
    GetIntersectionT(scene.primitives[k], ObjSpaceRay(scene.primitives[k], ray))

\* the smallest strictly positive value among the first n primitives
NearestOf(n, ray) ==
    LET ts == { HitOf(k, ray) : k \in 1..n }
        pos == { t \in ts : FGt(t, 0) }
    IN  IF pos = {} THEN Infinity ELSE CHOOSE t \in pos : \A u \in pos : t <= u

\* C4: a ray enters traceRay with tHit = +infinity, and after the scan (and
\* after every iteration of it) tHit is the smallest strictly positive value
\* getIntersectionT returned, +infinity if there is none; the index and the
\* object-space point kept for shading belong to a primitive that returned
\* exactly that value.
ScanFindsNearest ==
    \A k \in TraceFrames :
        LET f == stack[k]
        IN  /\ f.ray.t = NearestOf(f.i - 1, f.ray)
            /\ FLt(f.ray.t, Infinity) =>
                   /\ f.hitIdx \in 1..(f.i - 1)
                   /\ HitOf(f.hitIdx, f.ray) = f.ray.t
                   /\ f.objHit = GetPos(ObjSpaceRay(scene.primitives[f.hitIdx], f.ray),
                                        f.ray.t)
            /\ f.ray.t = Infinity => f.hitIdx = 0

\* a scan over two primitives that are both hit, the second one nearer, has
\* ended and its hit is being shaded
NearerSecondHitShaded ==
    /\ Len(stack) > 1
    /\ Below.fn = "traceRay" /\ Below.pc = "shading" /\ Below.hitIdx = 2
    /\ FLt(HitOf(1, Below.ray), Infinity)
    /\ FLt(Below.ray.t, HitOf(1, Below.ray))

ShadowBack ==
    /\ Len(stack) >= 2
    /\ Top.fn = "traceRay" /\ Top.pc = "ret"
    /\ Below.fn = "phong" /\ Below.pc = "shadow"

\* C10: when the shadow probe cast toward a point light comes back with a
\* hit nearer than the light, phong goes on to the next light with its
\* illumination unchanged: the light adds neither a diffuse nor a specular
\* term.
OccludedLightAddsNothing ==
    [][(/\ ShadowBack
        /\ GetType(scene.lights[Below.li]) = "Point"
        /\ FLt(Top.ray.t, Below.distToLight))
       => /\ Len(stack') = Len(stack) - 1
          /\ stack'[Len(stack')].fn = "phong"
          /\ stack'[Len(stack')].li = Below.li + 1
          /\ stack'[Len(stack')].illum = Below.illum]_vars

\* a point light that faces the surface, and would add light to it, is hidden
\* by a primitive between the surface and the light
OccludedFacingLight ==
    /\ ShadowBack
    /\ GetType(scene.lights[Below.li]) = "Point"
    /\ FLt(Top.ray.t, Below.distToLight)
    /\ FGt(Dot(Below.normal, Below.dirToLight), 0)
    /\ DiffuseTerm(Below, scene.lights[Below.li]) # <<0, 0, 0>>

----------------------------------------------------------------------------
(* The intersection routines on their own: each variant is asked for the   *)
(* intersection of one object-space ray, and for the normal at the hit.    *)

\* the radii of the spheres, in halves of a unit
MaxRadiusHalves == 3

GeoPrimitives ==
    { MkPrimitive("Sphere", k * Half, 0, 0, Translation(0, 0, 0), Matte) :
        k \in 1..MaxRadiusHalves }
    \cup { MkPrimitive("Cube", 0, 0, One, Translation(0, 0, 0), Matte),
           MkPrimitive("Cone", Half, One, 0, Translation(0, 0, 0), Matte),
           MkPrimitive("Cylinder", Half, One, 0, Translation(0, 0, 0), Matte) }

GeoCoords == {-5 * One, 0, Half, 5 * One}
GeoOrigins == { <<x, y, z>> : x \in GeoCoords, y \in GeoCoords, z \in GeoCoords }
\* the axis directions and the diagonals of the coordinate planes
GeoDirections ==
    { d \in { <<x, y, z>> : x \in {-One, 0, One}, y \in {-One, 0, One},
                            z \in {-One, 0, One} } :
        Cardinality({ k \in 1..3 : d[k] # 0 }) \in {1, 2} }

EmptyScene == [primitives |-> <<>>, lights |-> <<>>,
               globalData |-> [ka |-> Half, kd |-> One, ks |-> One]]

InitGeo ==
    /\ scene = EmptyScene
    /\ stack = <<>>
    /\ pixel = Black
    /\ phase = "geometry"
    /\ rend = NoRender
    /\ \E prim \in GeoPrimitives, pos \in GeoOrigins, dir \in GeoDirections :
         geo = [pc |-> "ray", prim |-> prim, ray |-> Ray(dir, pos),
                t |-> Infinity, normal |-> <<0, 0, 0>>]

\* Primitive::getIntersectionT on the object-space ray
GeoIntersect ==
    /\ geo.pc = "ray"
    /\ geo' = [geo EXCEPT !.pc = "hit", !.t = GetIntersectionT(geo.prim, geo.ray)]
    /\ UNCHANGED <<scene, stack, pixel, phase, rend>>

\* Primitive::getObjSpaceNormal at the hit point, when there is one
GeoNormal ==
    /\ geo.pc = "hit"
    /\ FGt(geo.t, 0) /\ FLt(geo.t, Infinity)
    /\ geo' = [geo EXCEPT !.pc = "normal",
                          !.normal = GetObjSpaceNormal(geo.prim, GetPos(geo.ray, geo.t))]
    /\ UNCHANGED <<scene, stack, pixel, phase, rend>>

NextGeo == GeoIntersect \/ GeoNormal

SpecGeo == InitGeo /\ [][NextGeo]_vars

Answered == geo.pc \in {"hit", "normal"}

\* C5: getIntersectionT of every variant returns a strictly positive finite
\* number or +infinity, never zero, a negative number or NaN.
IntersectionPositiveOrInfinite ==
    Answered => (geo.t = Infinity \/ (IsFinite(geo.t) /\ geo.t > 0))

\* the coefficients of |p + t d|^2 = r^2 as a quadratic in t
SphereA(ray) == Dot(ray.dir, ray.dir)
SphereB(ray) == FMul(2 * One, Dot(ray.pos, ray.dir))
SphereC(prim, ray) == FSub(Dot(ray.pos, ray.pos), Sq(prim.radius))

\* t solves |p + t d|^2 = r^2 exactly
IsSphereRoot(prim, ray, t) ==
    Dot(GetPos(ray, t), GetPos(ray, t)) = Sq(prim.radius)

\* the other root of the quadratic, from the sum of the roots -B / A
OtherSphereRoot(ray, t) == FSub(FDiv(FNeg(SphereB(ray)), SphereA(ray)), t)

\* the parameters tried as roots: the multiples of a quarter up to 11
GeoParameters == { k * Quarter : k \in 1..44 }

\* t is the smallest strictly positive root
IsSmallestPositiveSphereRoot(prim, ray, t) ==
    /\ t > 0
    /\ IsSphereRoot(prim, ray, t)
    /\ (OtherSphereRoot(ray, t) <= 0 \/ OtherSphereRoot(ray, t) >= t)

\* C6: Sphere intersect returns the smallest strictly positive root of
\* |p + t d|^2 = r^2, and +infinity only when there is no strictly positive
\* root; this covers an origin inside the sphere and a tangent ray.
SphereSmallestPositiveRoot ==
    (Answered /\ geo.prim.type = "Sphere") =>
        \A t \in GeoParameters :
            /\ IsSmallestPositiveSphereRoot(geo.prim, geo.ray, t) => geo.t = t
            /\ IsSphereRoot(geo.prim, geo.ray, t) => geo.t # Infinity

\* the candidates of Cone intersect: the lateral roots within the height
\* range and the base-plane hit within the base disk
ConeCandidates(prim, ray) ==
    LET list == ConeLateral(prim, ray) \o ConeBase(prim, ray)
    IN  { list[k] : k \in 1..Len(list) }

\* C7: Cone intersect returns the smallest strictly positive t among the
\* valid candidates; candidates with t <= 0 are discarded and never replace
\* or hide a valid positive root.
ConeSmallestPositiveCandidate ==
    (Answered /\ geo.prim.type = "Cone") =>
        LET pos == { t \in ConeCandidates(geo.prim, geo.ray) : FGt(t, 0) }
        IN  IF pos = {} THEN geo.t = Infinity
            ELSE geo.t = CHOOSE t \in pos : \A u \in pos : t <= u

\* the ray starts outside the sphere and its line crosses the sphere ahead
\* of the origin
AimedFromOutside(prim, ray) ==
    /\ SphereC(prim, ray) > 0
    /\ SphereB(ray) < 0
    /\ FSub(Sq(SphereB(ray)), FMul(FMul(4 * One, SphereA(ray)), SphereC(prim, ray))) > 0

\* how far |p + t d|^2 may be from r^2 for a root rounded to the grid
RootTolerance == One \div 100

\* C8: for a sphere of radius r, 0 < r < 5, the ray from (0,0,5) toward
\* (0,0,-1) has intersection parameter 5 - r; and for any ray that starts
\* outside the sphere and is aimed at it, both roots are positive and the
\* smaller one is returned.
SphereNearRootFromOutside ==
    (Answered /\ geo.prim.type = "Sphere") =>
        /\ (/\ geo.ray.pos = <<0, 0, 5 * One>>
            /\ geo.ray.dir = <<0, 0, -One>>
            /\ geo.prim.radius > 0 /\ geo.prim.radius < 5 * One)
           => geo.t = 5 * One - geo.prim.radius
        /\ AimedFromOutside(geo.prim, geo.ray) =>
               LET p == GetPos(geo.ray, geo.t)
               IN  /\ IsFinite(geo.t) /\ geo.t > 0
                   /\ Abs(Dot(p, p) - Sq(geo.prim.radius)) <= RootTolerance
                   /\ OtherSphereRoot(geo.ray, geo.t) > geo.t

\* a sphere has been hit from outside by the ray from (0,0,5) toward (0,0,-1)
SphereHitFromOutside ==
    /\ Answered /\ geo.prim.type = "Sphere"
    /\ geo.ray.pos = <<0, 0, 5 * One>> /\ geo.ray.dir = <<0, 0, -One>>
    /\ AimedFromOutside(geo.prim, geo.ray)
    /\ geo.t = 5 * One - geo.prim.radius

Axis(k, s) == [j \in 1..3 |-> IF j = k THEN s ELSE 0]

\* the ray comes from distance 5 on the side s of axis k, aimed at the center
IsAxisRay(ray, k, s) ==
    ray.pos = Axis(k, s * 5 * One) /\ ray.dir = Axis(k, -s * One)

\* C9: an axis-aligned ray from distance 5 aimed at the center of the unit
\* cube hits the facing face at t = 4.5, and the object-space normal at the
\* hit point is the outward unit normal of that face; for the ray from
\* (0,0,5) toward (0,0,-1) this is the z = 0.5 face and the normal (0,0,1).
CubeAxisHits ==
    (geo.prim.type = "Cube") =>
        \A k \in 1..3, s \in {-1, 1} :
            IsAxisRay(geo.ray, k, s) =>
                /\ Answered => geo.t = 9 * Half
                /\ geo.pc = "hit" => GetPos(geo.ray, geo.t) = Axis(k, s * Half)
                /\ geo.pc = "normal" => geo.normal = Axis(k, s * One)

\* the normal of the z = 0.5 face has been computed for the ray from (0,0,5)
CubeFrontFaceNormal ==
    /\ geo.prim.type = "Cube" /\ geo.pc = "normal"
    /\ IsAxisRay(geo.ray, 3, 1)
    /\ geo.t = 9 * Half /\ geo.normal = <<0, 0, One>>

----------------------------------------------------------------------------
(* Properties of render, checked under SpecRender.                         *)

\* no lights, and ka * cAmbient = 0 for the material of every primitive
DarkScene ==
    /\ NumLights = 0
    /\ \A k \in 1..NumPrimitives :
           VScale(scene.globalData.ka, scene.primitives[k].material.cAmbient)
               = <<0, 0, 0>>

IsBlackRGB(color) == color.r = 0 /\ color.g = 0 /\ color.b = 0

\* the slots of the buffer render has written in this pass
Written == { rend.writes[i] + 1 : i \in 1..Len(rend.writes) }
RenderDone == rend.row = scene.height

\* C11: in a scene with no lights and zero ambient contribution every pixel
\* render writes is RGB (0,0,0), where the primary ray hits a primitive and
\* where it hits nothing, whatever the reflective coefficients and the
\* recursion depth reached: every color traceRay or phong returns is black,
\* and when render is done the whole buffer is black.
BlackSceneRendersBlack ==
    DarkScene =>
        /\ \A k \in 1..Len(stack) :
               stack[k].pc = "ret" => IsBlackRGB(stack[k].color)
        /\ \A k \in Written : IsBlackRGB(rend.image[k])
        /\ RenderDone => \A k \in DOMAIN rend.image :
                             IsBlackRGB(rend.image[k]) /\ rend.image[k].a = 255

\* in the dark, a primary ray that hit a mirror has been reflected back and
\* forth down to the depth limit, and traceRay returns black for it
DarkMirrorsTraced ==
    /\ DarkScene
    /\ Len(stack) = 1 /\ Top.fn = "traceRay" /\ Top.pc = "ret"
    /\ Top.hitIdx > 0 /\ Top.reflected = MaxRecursionDepth
    /\ scene.primitives[Top.hitIdx].material.cReflective = Gray(One)
    /\ IsBlackRGB(Top.color)

----------------------------------------------------------------------------
(* The conversions on their own: getTexture on a point of a textured       *)
(* primitive, applyCTM followed by applyInverseCTM, and toRGBA.            *)

\* the variants as RayTraceScene constructs them, each with a texture
MaxTexSize == 2
MaxRepeat == 2

UnitPrimitives ==
    { MkPrimitive("Sphere", Half, 0, 0, Translation(0, 0, 0), Matte),
      MkPrimitive("Cube", 0, 0, One, Translation(0, 0, 0), Matte),
      MkPrimitive("Cone", Half, One, 0, Translation(0, 0, 0), Matte),
      MkPrimitive("Cylinder", Half, One, 0, Translation(0, 0, 0), Matte) }

\* primitives that use a texture, repeated once along U and MaxRepeat times
\* along V
TexturedPrimitives ==
    { [prim EXCEPT !.textureUsed = TRUE, !.texture = Texture(MaxTexSize, MaxTexSize),
                   !.repeatU = 1, !.repeatV = MaxRepeat] :
        prim \in UnitPrimitives }

\* primitives that use no texture: their filename names no loaded image
\* (m_texture is the empty Texture), or an image another shape uses
UntexturedPrimitives ==
    UnitPrimitives
    \cup { [prim EXCEPT !.texture = Texture(MaxTexSize, MaxTexSize),
                        !.repeatU = 1, !.repeatV = 1] : prim \in UnitPrimitives }

\* the U and V of the direct lookups: the ends, the middle, the quarters and
\* the nearest values to the ends
UVGrid == {0, 1, One \div 4, Half, 3 * (One \div 4), One - 1, One}

\* the coordinates of the surface points: on the faces, poles, apex, edges
\* and corners (0.5 from the center), and one step of the grid outside them,
\* where a rounded hit point can lie
SurfaceCoords == {-Half - 1, -Half, 0, Half, Half + 1}
SurfacePoints ==
    { <<x, y, z>> : x \in SurfaceCoords, y \in SurfaceCoords, z \in SurfaceCoords }

\* a quarter turn about the z axis
QuarterTurn == <<(<<0, -One, 0>>), (<<One, 0, 0>>), (<<0, 0, One>>)>>

\* invertible transforms: a translation, a scaling by 2 and one by 3 with a
\* translation, a rotation with a translation
Transforms ==
    { Translation(0, One, -3 * One),
      [m |-> Scaling(2 * One), tr |-> <<One, 0, -3 * Half>>],
      [m |-> Scaling(3 * One), tr |-> <<0, 2 * One, One>>],
      [m |-> QuarterTurn, tr |-> <<Half, 0, 0>>] }

TransformCoords == {-One, 0, One \div 10, 2 * One}
TransformVectors ==
    { <<x, y, z>> : x \in TransformCoords, y \in TransformCoords,
                    z \in TransformCoords }

\* the channels of an illumination: negative, zero, inside (0,1), one, above
IlluminationLevels == {-One, 0, One \div 3, Half, One, 3 * Half, 300 * One}
Illuminations ==
    { <<r, g, b>> : r \in IlluminationLevels, g \in IlluminationLevels,
                    b \in IlluminationLevels }

\* world-space rays and parameters along them
RayCoords == {-One, One \div 10, 2 * One}
RayDirections == { <<One, 0, 0>>, <<0, One, 0>>, <<0, 0, -One>>, <<One, One, 0>> }
RayParameters == {Half, 17 * (One \div 10), 3 * One}

UnitCalls ==
    { [pc |-> "call", fn |-> "getTexture", prim |-> prim, point |-> point] :
        prim \in TexturedPrimitives \cup UntexturedPrimitives,
        point \in SurfacePoints }
    \cup
    { [pc |-> "call", fn |-> "getTextureColorAtUV",
       tex |-> Texture(width, height), UV |-> <<U, V>>,
       repeatU |-> repeatU, repeatV |-> repeatV] :
        width \in 1..MaxTexSize, height \in 1..MaxTexSize,
        U \in UVGrid, V \in UVGrid,
        repeatU \in 1..MaxRepeat, repeatV \in 1..MaxRepeat }
    \cup
    { [pc |-> "call", fn |-> "applyCTM", isVector |-> isVector, p |-> p,
       prim |-> MkPrimitive("Cube", 0, 0, One, ctm, Matte)] :
        ctm \in Transforms, p \in TransformVectors, isVector \in BOOLEAN }
    \cup
    { call \in
        { [pc |-> "call", fn |-> "getViewPlaneCoords", row |-> row, col |-> col,
           width |-> width, height |-> height] :
            width \in 1..(2 * MaxWidth), height \in 1..(2 * MaxHeight),
            row \in 0..(2 * MaxHeight - 1), col \in 0..(2 * MaxWidth - 1) } :
        call.row < call.height /\ call.col < call.width }
    \cup
    { [pc |-> "call", fn |-> "objSpaceRay", t |-> t, ray |-> Ray(dir, pos),
       prim |-> MkPrimitive("Cube", 0, 0, One, ctm, Matte)] :
        ctm \in Transforms, t \in RayParameters, dir \in RayDirections,
        pos \in { <<x, y, z>> : x \in RayCoords, y \in RayCoords, z \in RayCoords } }
    \cup
    { [pc |-> "call", fn |-> "toRGBA", illumination |-> illumination] :
        illumination \in Illuminations }

InitUnit ==
    /\ scene = EmptyScene
    /\ stack = <<>>
    /\ pixel = Black
    /\ phase = "unit"
    /\ rend = NoRender
    /\ geo \in UnitCalls

\* Primitive::getTexture
UnitGetTexture ==
    /\ geo.pc = "call" /\ geo.fn = "getTexture"
    /\ \E call \in GetTexture(geo.prim, geo.point) :
         geo' = [pc |-> "done", fn |-> geo.fn, prim |-> geo.prim, point |-> geo.point,
                 uvComputed |-> call.uvComputed, indexed |-> call.indexed,
                 fault |-> call.fault, uv |-> call.uv, index |-> call.index,
                 color |-> call.color, alpha |-> call.alpha]
    /\ UNCHANGED <<scene, stack, pixel, phase, rend>>

\* Texture::getTextureColorAtUV
UnitGetTextureColorAtUV ==
    /\ geo.pc = "call" /\ geo.fn = "getTextureColorAtUV"
    /\ \E call \in GetTextureColorAtUV(geo.tex, geo.UV, geo.repeatU, geo.repeatV) :
         geo' = [pc |-> "done", fn |-> geo.fn, tex |-> geo.tex, UV |-> geo.UV,
                 repeatU |-> geo.repeatU, repeatV |-> geo.repeatV,
                 fault |-> call.fault, row |-> call.row, col |-> call.col,
                 index |-> call.index, color |-> call.color]
    /\ UNCHANGED <<scene, stack, pixel, phase, rend>>

\* Primitive::applyCTM
UnitApplyCTM ==
    /\ geo.pc = "call" /\ geo.fn = "applyCTM"
    /\ geo' = [pc |-> "world", fn |-> geo.fn, prim |-> geo.prim, p |-> geo.p,
               isVector |-> geo.isVector,
               world |-> ApplyCTM(geo.prim, geo.p, geo.isVector)]
    /\ UNCHANGED <<scene, stack, pixel, phase, rend>>

\* Primitive::applyInverseCTM on the result of applyCTM
UnitApplyInverseCTM ==
    /\ geo.pc = "world"
    /\ geo' = [pc |-> "done", fn |-> geo.fn, prim |-> geo.prim, p |-> geo.p,
               isVector |-> geo.isVector, world |-> geo.world,
               back |-> ApplyInverseCTM(geo.prim, geo.world, geo.isVector)]
    /\ UNCHANGED <<scene, stack, pixel, phase, rend>>

\* toRGBA
UnitToRGBA ==
    /\ geo.pc = "call" /\ geo.fn = "toRGBA"
    /\ geo' = [pc |-> "done", fn |-> geo.fn, illumination |-> geo.illumination,
               color |-> ToRGBA(geo.illumination)]
    /\ UNCHANGED <<scene, stack, pixel, phase, rend>>

\* traceRay, lines 79-82 and 88: the object-space ray of a world-space ray,
\* and its point at t
UnitObjSpaceRay ==
    /\ geo.pc = "call" /\ geo.fn = "objSpaceRay"
    /\ LET objSpaceRay == ObjSpaceRay(geo.prim, geo.ray)
       IN  geo' = [pc |-> "object", fn |-> geo.fn, prim |-> geo.prim, ray |-> geo.ray,
                   t |-> geo.t, objSpaceRay |-> objSpaceRay,
                   objPos |-> GetPos(objSpaceRay, geo.t)]
    /\ UNCHANGED <<scene, stack, pixel, phase, rend>>

\* Primitive::applyCTM on the object-space point, next to the point of the
\* world-space ray at the same t
UnitObjToWorld ==
    /\ geo.pc = "object"
    /\ geo' = [pc |-> "done", fn |-> geo.fn, prim |-> geo.prim, ray |-> geo.ray,
               t |-> geo.t, objSpaceRay |-> geo.objSpaceRay, objPos |-> geo.objPos,
               back |-> ApplyCTM(geo.prim, geo.objPos, FALSE),
               worldPos |-> GetPos(geo.ray, geo.t)]
    /\ UNCHANGED <<scene, stack, pixel, phase, rend>>

\* the scene of an image size whose camera looks down the negative z axis
UnitScene(width, height) ==
    MkScene(width, height,
            [shapes |-> <<>>, lights |-> <<>>,
             globalData |-> [ka |-> Half, kd |-> One, ks |-> One],
             cameraData |-> CameraAtOrigin])

\* RayTracer::getViewPlaneCoords of a pixel of the image, at depth k = 1
UnitGetViewPlaneCoords ==
    /\ geo.pc = "call" /\ geo.fn = "getViewPlaneCoords"
    /\ geo' = [pc |-> "done", fn |-> geo.fn, row |-> geo.row, col |-> geo.col,
               width |-> geo.width, height |-> geo.height,
               x |-> XNormalized(geo.col, geo.width),
               y |-> YNormalized(geo.row, geo.height),
               coords |-> GetViewPlaneCoords(geo.row, geo.col, One,
                                             UnitScene(geo.width, geo.height))]
    /\ UNCHANGED <<scene, stack, pixel, phase, rend>>

NextUnit ==
    \/ UnitGetTexture \/ UnitGetTextureColorAtUV \/ UnitGetViewPlaneCoords
    \/ UnitObjSpaceRay \/ UnitObjToWorld
    \/ UnitApplyCTM \/ UnitApplyInverseCTM \/ UnitToRGBA

SpecUnit == InitUnit /\ [][NextUnit]_vars

Returned(fn) == geo.pc = "done" /\ geo.fn = fn

\* C12: for every variant and every object-space point passed to getTexture
\* the UV handed to the texture lookup has both components within [0,1].
UVInUnitSquare ==
    Returned("getTexture") /\ geo.uvComputed =>
        \A k \in 1..2 : FLe(0, geo.uv[k]) /\ FLe(geo.uv[k], One)

\* how far a round trip may end from its start on the grid
RoundTripTolerance == One \div 100

\* C13 as stated: applyInverseCTM(applyCTM(p, f), f) is p itself, for points
\* and for directions.
RoundTripExact ==
    Returned("applyCTM") => geo.back = geo.p

\* C13, amended: applyInverseCTM(applyCTM(p, f), f) is p within the rounding
\* tolerance, for f = false (a point, translated there and back) and for
\* f = true (a direction, which the translation leaves alone both ways).
RoundTripWithinTolerance ==
    /\ Returned("applyCTM") =>
           \A k \in 1..3 : Abs(FSub(geo.back[k], geo.p[k])) <= RoundTripTolerance
    /\ (geo.fn = "applyCTM" /\ geo.pc \in {"world", "done"} /\ geo.isVector) =>
           geo.world = MatVec(geo.prim.ctm.m, geo.p)

\* a direction has made the round trip through a transform that scales and
\* translates, and has come back rounded
DirectionRoundTripRounded ==
    /\ Returned("applyCTM") /\ geo.isVector
    /\ geo.prim.ctm.tr # <<0, 0, 0>> /\ geo.prim.ctm.m = Scaling(3 * One)
    /\ geo.back # geo.p
    /\ \A k \in 1..3 : Abs(FSub(geo.back[k], geo.p[k])) <= RoundTripTolerance

\* the 8-bit value of 255 * clamp(x, 0, 1)
ClampedByte(x) ==
    IF x <= 0 THEN 0 ELSE IF x >= One THEN 255 ELSE (255 * x) \div One

\* C17: a color toRGBA produces has alpha 255 and each of r, g, b is the
\* 8-bit value of 255 * clamp(x, 0, 1) of its illumination channel x: within
\* 0..255, not wrapped around modulo 256, also for x above 1 and for x < 0.
ColorIsClampedByte ==
    Returned("toRGBA") =>
        /\ geo.color.a = 255
        /\ geo.color.r = ClampedByte(geo.illumination[1])
        /\ geo.color.g = ClampedByte(geo.illumination[2])
        /\ geo.color.b = ClampedByte(geo.illumination[3])
        /\ {geo.color.r, geo.color.g, geo.color.b} \subseteq 0..255

\* an illumination with a channel above 1, a negative one and one inside
\* (0,1) has been converted
SaturatedAndNegativeConverted ==
    /\ Returned("toRGBA")
    /\ geo.illumination[1] > One /\ geo.illumination[2] < 0
    /\ geo.illumination[3] > 0 /\ geo.illumination[3] < One
    /\ geo.color = [r |-> 255, g |-> 0, b |-> ClampedByte(geo.illumination[3]),
                    a |-> 255]

----------------------------------------------------------------------------
(* Properties of the two renders, checked under SpecRender.                *)

\* the second Config has the shadow and reflection toggles of the first
SameShadowAndReflection ==
    /\ rend.config.enableShadow = DefaultConfig.enableShadow
    /\ rend.config.enableReflection = DefaultConfig.enableReflection

IsLit(image) == \E k \in DOMAIN image : ~IsBlackRGB(image[k])

\* C14: two renders of the same scene whose Configs differ only in the
\* toggles enableRefraction, enableTextureMap, enableTextureFilter,
\* enableParallelism, enableSuperSample, enableAcceleration and
\* enableDepthOfField fill identical buffers.
OtherTogglesChangeNothing ==
    (rend.pass = 2 /\ SameShadowAndReflection /\ RenderDone) =>
        rend.image = rend.previous

\* a lit scene has been rendered with every toggle off and then with the
\* seven other toggles on, and the buffers are the same
OtherTogglesOnSameImage ==
    /\ rend.pass = 2 /\ RenderDone
    /\ rend.config = ConfigOf(OtherToggles)
    /\ IsLit(rend.image) /\ rend.image = rend.previous

\* C15: the shadow test is performed according to Config.enableShadow and
\* the reflection ray is spawned according to Config.enableReflection: no
\* shadow probe is traced while enableShadow is off and no reflection ray is
\* traced while enableReflection is off.
TogglesAreHonoured ==
    \A k \in TraceFrames :
        /\ stack[k].depth = ShadowDepth => rend.config.enableShadow
        /\ stack[k].depth > 0 => rend.config.enableReflection

\* C16: render fills the whole width x height buffer in row-major order with
\* a top-left origin: the indices written so far are 0, 1, 2, ... in this
\* order, one per pixel of the loops (col + row*width), each once and all
\* within [0, width*height); when render is done there are width*height of
\* them; and row 0 is the top of the view plane, column 0 its left.
RowMajorFill ==
    /\ \A i \in 1..Len(rend.writes) : rend.writes[i] = i - 1
    /\ Len(rend.writes) = rend.col + rend.row * scene.width
    /\ \A i \in 1..Len(rend.writes) :
           rend.writes[i] \in 0..(scene.width * scene.height - 1)
    /\ rend.col \in 0..(scene.width - 1) /\ rend.row \in 0..scene.height
    /\ RenderDone => /\ Len(rend.writes) = scene.width * scene.height
                     /\ \A k \in DOMAIN rend.image : rend.image[k] # Unwritten
    /\ \A row \in 0..(scene.height - 1), col \in 0..(scene.width - 1) :
           LET here == GetViewPlaneCoords(row, col, One, scene)
           IN  /\ row > 0 => here[2] < GetViewPlaneCoords(row - 1, col, One, scene)[2]
               /\ col > 0 => here[1] > GetViewPlaneCoords(row, col - 1, One, scene)[1]

\* a buffer of more than one row and more than one column has been filled
WholeBufferFilled ==
    /\ RenderDone
    /\ scene.width > 1 /\ scene.height > 1
    /\ Len(rend.writes) = scene.width * scene.height
    /\ rend.writes[Len(rend.writes)] = scene.width * scene.height - 1

----------------------------------------------------------------------------
(* Frame conditions of traceRay and phong, checked under Spec.             *)

\* a frame without its count of reflection rays, which is no program state
Sans(f) ==
    IF f.fn = "traceRay"
    THEN [f EXCEPT !.reflected = 0, !.calls = [phong |-> 0, probe |-> 0, trace |-> 0]]
    ELSE f

\* C19: traceRay and phong leave the scene (the primitives with their
\* transforms, materials and textures, the lights, the global coefficients)
\* unchanged; a call changes nothing of the calls below it on the stack; and
\* of the ray a traceRay call was passed, only tHit changes.
SceneReadOnly ==
    [][/\ scene' = scene
       /\ \A k \in 1..Len(stack) :
              /\ (k < Len(stack) /\ k < Len(stack')) =>
                     Sans(stack'[k]) = Sans(stack[k])
              /\ (k <= Len(stack') /\ stack[k].fn = "traceRay"
                  /\ stack'[k].fn = "traceRay" /\ stack'[k].depth = stack[k].depth
                  /\ stack[k].pc = "scan") =>
                     /\ stack'[k].ray.dir = stack[k].ray.dir
                     /\ stack'[k].ray.pos = stack[k].ray.pos]_vars

\* the scan has just recorded the hit of the primitive it looked at
HitRecorded ==
    /\ stack # <<>>
    /\ Top.fn = "traceRay" /\ Top.pc = "scan"
    /\ Top.hitIdx > 0 /\ Top.hitIdx = Top.i - 1
    /\ Top.ray.t = Top.currT /\ IsFinite(Top.ray.t)

\* C20: getIntersectionPoint is called (traceRay, line 99, on the way into
\* phong) only on a ray whose recorded tHit is finite and > 0, never on a
\* ray with tHit = +infinity.
IntersectionPointGuarded ==
    \A k \in TraceFrames :
        stack[k].pc = "shading" =>
            /\ IsFinite(stack[k].ray.t) /\ stack[k].ray.t > 0
            /\ k < Len(stack) /\ stack[k + 1].fn = "phong"
            /\ stack[k + 1].point = GetIntersectionPoint(stack[k].ray)

\* phong has just been entered with the intersection point of a ray that hit
IntersectionPointTaken ==
    /\ Len(stack) >= 2
    /\ Top.fn = "phong" /\ Top.li = 1 /\ Top.pc \in {"lights", "reflect"}
    /\ Below.fn = "traceRay" /\ Below.pc = "shading"
    /\ IsFinite(Below.ray.t) /\ Below.ray.t > 0
    /\ Top.point = GetIntersectionPoint(Below.ray)

\* C21: getTexture of a primitive that uses no texture returns the black
\* "no texture" color without computing a UV and without indexing any image,
\* and does not fail, whether or not the primitive holds an image.
NoTextureIsBlack ==
    Returned("getTexture") /\ ~geo.prim.textureUsed =>
        /\ geo.color = <<0, 0, 0>>
        /\ ~geo.uvComputed /\ ~geo.indexed /\ ~geo.fault

\* getTexture returned for an untextured primitive that holds the empty Texture
EmptyTextureNotRead ==
    /\ Returned("getTexture") /\ ~geo.prim.textureUsed
    /\ geo.prim.texture = DefaultTexture
    /\ geo.color = <<0, 0, 0>>

\* the image coordinates and the index of a lookup, and those of the lookup
\* one repeat period further along U
PeriodU(repeatU) == One \div repeatU
Shifted(UV, repeatU) == <<FAdd(UV[1], PeriodU(repeatU)), UV[2]>>

\* C23: for every UV in [0,1]^2, repeat counts >= 1 and an image of at least
\* 1x1, the lookup reads row in [0,h-1] and col in [0,w-1], so the index is
\* within [0, w*h); and the lookup one repeat period further along U (where the
\* period is a value of the grid and the shifted U is still at most 1) reads
\* the same pixel.
LookupInBoundsAndWraps ==
    Returned("getTextureColorAtUV") =>
        /\ ~geo.fault
        /\ geo.row \in 0..(geo.tex.height - 1)
        /\ geo.col \in 0..(geo.tex.width - 1)
        /\ geo.index \in 0..(geo.tex.width * geo.tex.height - 1)
        /\ (/\ One % geo.repeatU = 0
            /\ FLe(FAdd(geo.UV[1], PeriodU(geo.repeatU)), One))
           => \A shifted \in GetTextureColorAtUV(geo.tex, Shifted(geo.UV, geo.repeatU),
                                                 geo.repeatU, geo.repeatV) :
                 shifted.index = geo.index /\ shifted.color = geo.color

\* a lookup in the second repeat of a texture wider than one pixel, at U = 1
\* and V = 0, whose scaled coordinates are whole multiples of the image size
WrappedLookupAtEdge ==
    /\ Returned("getTextureColorAtUV") /\ ~geo.fault
    /\ geo.tex.width > 1 /\ geo.repeatU > 1
    /\ geo.UV = <<One, 0>>
    /\ geo.col = 0 /\ geo.row = 0

\* the term phong adds for light i at the shaded point of frame f, computed
\* from the point, the light and the primitives alone: nothing when a
\* primitive lies between the point and the light or when the normal does not
\* face the light, the diffuse and the specular term otherwise
LightTerm(f, i) ==
    LET light == scene.lights[i]
        directionToLight == GetDirToLight(light, f.point)
        distToLight == DistToLight(light, f.point)
        shadowRay == Ray(directionToLight,
                         VAdd(f.point, VScale(ShadowEps, directionToLight)))
        g == [f EXCEPT !.dirToLight = directionToLight, !.distToLight = distToLight,
                       !.fAtt = Attenuation(light, distToLight)]
    IN  IF FLt(NearestOf(NumPrimitives, shadowRay), distToLight) THEN <<0, 0, 0>>
        ELSE IF FGt(Dot(f.normal, directionToLight), 0)
             THEN VAdd(DiffuseTerm(g, light), SpecularTerm(g, light))
             ELSE <<0, 0, 0>>

RECURSIVE SumOfLightTerms(_, _)
SumOfLightTerms(f, n) ==
    IF n = 0 THEN <<0, 0, 0>> ELSE VAdd(SumOfLightTerms(f, n - 1), LightTerm(f, n))

UnoccludedLightBehindSurface ==
    /\ stack # <<>> /\ Top.fn = "phong" /\ Top.pc = "reflect"
    /\ \E i \in 1..NumLights :
         LET dir == GetDirToLight(scene.lights[i], Top.point)
             shadowRay == Ray(dir, VAdd(Top.point, VScale(ShadowEps, dir)))
         IN  /\ ~FLt(NearestOf(NumPrimitives, shadowRay),
                     DistToLight(scene.lights[i], Top.point))
             /\ FLe(Dot(Top.normal, dir), 0)

----------------------------------------------------------------------------
(* The constructor of RayTraceScene on its own: the dictionary of textures *)
(* and the list of primitives built from the shapes of a scene file.       *)

\* the most shapes of a scene file
MaxShapes == 3

\* the image Texture::Texture(filename) loads: a file that does not exist
\* gives an image of no pixels
LoadTexture(filename) ==
    IF filename = "a.png" THEN Texture(1, 1)
    ELSE IF filename = "b.png" THEN Texture(2, 1)
    ELSE Texture(0, 0)

\* RenderShapeData: the type of the primitive and the textureMap of its material
Shape(type, filename, isUsed) ==
    [type |-> type, textureMap |-> [filename |-> filename, isUsed |-> isUsed]]

ShapeCatalog ==
    { Shape("Sphere", "a.png", TRUE), Shape("Cone", "a.png", TRUE),
      Shape("Cube", "b.png", TRUE), Shape("Cylinder", "", TRUE),
      Shape("Cylinder", "a.png", FALSE), Shape("Sphere", "b.png", FALSE),
      Shape("Cube", "", FALSE), Shape("Cone", "c.png", FALSE) }

ShapeLists == UNION { [1..n -> ShapeCatalog] : n \in 0..MaxShapes }

\* std::map::operator[]: the entry of a key, inserted with an empty Texture
\* when the key is new
Subscript(dictionary, key) ==
    IF key \in DOMAIN dictionary THEN dictionary
    ELSE [k \in DOMAIN dictionary \cup {key} |->
            IF k = key THEN DefaultTexture ELSE dictionary[k]]

\* a test that forgets to look the filename up
ShouldLoadEveryUse(dictionary, textureMap) == textureMap.isUsed

\* RayTraceScene::RayTraceScene, line 23
ShouldLoad(dictionary, textureMap) ==
    textureMap.isUsed /\ textureMap.filename \notin DOMAIN dictionary

\* Primitive::Primitive, lines 23-24, called by the constructors of the
\* variants with the sizes of lines 34-43
NewPrimitive(shapeData, dictionary) ==
    LET unit == CASE shapeData.type = "Sphere" ->
                       MkPrimitive("Sphere", Half, 0, 0, Translation(0, 0, 0), Matte)
                  [] shapeData.type = "Cone" ->
                       MkPrimitive("Cone", Half, One, 0, Translation(0, 0, 0), Matte)
                  [] shapeData.type = "Cube" ->
                       MkPrimitive("Cube", 0, 0, One, Translation(0, 0, 0), Matte)
                  [] shapeData.type = "Cylinder" ->
                       MkPrimitive("Cylinder", Half, One, 0, Translation(0, 0, 0), Matte)
    IN  [unit EXCEPT !.textureUsed = shapeData.textureMap.isUsed,
                     !.texture = Subscript(dictionary,
                                           shapeData.textureMap.filename)
                                     [shapeData.textureMap.filename],
                     !.repeatU = 1, !.repeatV = 1]

InitBuild ==
    /\ scene = EmptyScene
    /\ stack = <<>>
    /\ pixel = Black
    /\ phase = "build"
    /\ rend = NoRender
    /\ \E shapes \in ShapeLists :
         geo = [pc |-> IF shapes = <<>> THEN "done" ELSE "textures", shapes |-> shapes,
                i |-> 1, textureDictionary |-> <<>>, loads |-> <<>>,
                primitiveList |-> <<>>]

\* RayTraceScene::RayTraceScene, lines 19-28: one shape of the first loop;
\* loads lists the filenames Texture::Texture was called with
BuildUniqueTexture ==
    /\ phase = "build" /\ geo.pc = "textures"
    /\ LET textureMap == geo.shapes[geo.i].textureMap
           load == ShouldLoad(geo.textureDictionary, textureMap)
           dictionary ==
               IF load
               THEN [k \in DOMAIN geo.textureDictionary \cup {textureMap.filename} |->
                       IF k = textureMap.filename THEN LoadTexture(k)
                       ELSE geo.textureDictionary[k]]
               ELSE geo.textureDictionary
           last == geo.i = Len(geo.shapes)
       IN  geo' = [geo EXCEPT !.textureDictionary = dictionary,
                              !.loads = IF load THEN Append(@, textureMap.filename) ELSE @,
                              !.i = IF last THEN 1 ELSE @ + 1,
                              !.pc = IF last THEN "primitives" ELSE @]
    /\ UNCHANGED <<scene, stack, pixel, phase, rend>>

\* RayTraceScene::RayTraceScene, lines 31-46: one shape of the second loop
ConstructPrimitive ==
    /\ phase = "build" /\ geo.pc = "primitives"
    /\ LET shapeData == geo.shapes[geo.i]
           last == geo.i = Len(geo.shapes)
       IN  geo' = [geo EXCEPT
                     !.textureDictionary = Subscript(@, shapeData.textureMap.filename),
                     !.primitiveList = Append(@, NewPrimitive(shapeData,
                                                              geo.textureDictionary)),
                     !.i = @ + 1,
                     !.pc = IF last THEN "done" ELSE @]
    /\ UNCHANGED <<scene, stack, pixel, phase, rend>>

NextBuild == BuildUniqueTexture \/ ConstructPrimitive

SpecBuild == InitBuild /\ [][NextBuild]_vars

\* the filenames that some shape names and uses
UsedFilenames ==
    { geo.shapes[k].textureMap.filename :
        k \in { j \in 1..Len(geo.shapes) : geo.shapes[j].textureMap.isUsed } }

TimesLoaded(filename) ==
    Cardinality({ k \in 1..Len(geo.loads) : geo.loads[k] = filename })

\* C24: after the construction of the scene, for any list of shapes, the
\* image of each filename used by some shape has been loaded exactly once,
\* however many shapes name it (and no other file has been loaded), and every
\* primitive that uses a texture holds the texture loaded from its own
\* filename.
TexturesLoadedOnce ==
    phase = "build" /\ geo.pc = "done" =>
        /\ \A filename \in UsedFilenames : TimesLoaded(filename) = 1
        /\ \A k \in 1..Len(geo.loads) : geo.loads[k] \in UsedFilenames
        /\ Len(geo.primitiveList) = Len(geo.shapes)
        /\ \A k \in 1..Len(geo.shapes) :
             geo.primitiveList[k].textureUsed =>
                 geo.primitiveList[k].texture =
                     LoadTexture(geo.shapes[k].textureMap.filename)

\* two shapes use the same file, a third names another file without using it
SharedTextureBuilt ==
    /\ phase = "build" /\ geo.pc = "done"
    /\ \E j, k \in 1..Len(geo.shapes) :
         /\ j < k
         /\ geo.shapes[j].textureMap = geo.shapes[k].textureMap
         /\ geo.shapes[j].textureMap.isUsed
         /\ geo.primitiveList[j].texture = geo.primitiveList[k].texture
         /\ geo.primitiveList[k].texture.width > 0
    /\ \E k \in 1..Len(geo.shapes) :
         /\ ~geo.shapes[k].textureMap.isUsed
         /\ geo.shapes[k].textureMap.filename \notin UsedFilenames
         /\ geo.primitiveList[k].texture = DefaultTexture

\* C25: getViewPlaneCoords maps the pixel (row, col) to its center,
\* x = (col + 0.5)/width - 0.5 and y = (height - row - 0.5)/height - 0.5 (to
\* the rounding of the division): x grows strictly with col, y falls strictly
\* with row, both lie strictly inside (-0.5, 0.5), and the pixels (row, col)
\* and (height-1-row, width-1-col) map to opposite points.
PixelCenters ==
    Returned("getViewPlaneCoords") =>
        LET w == geo.width
            h == geo.height
            opposite == GetViewPlaneCoords(h - 1 - geo.row, w - 1 - geo.col, One,
                                           UnitScene(w, h))
        IN  /\ Abs(2 * w * geo.x - (2 * geo.col + 1 - w) * One) <= w
            /\ Abs(2 * h * geo.y - (h - 2 * geo.row - 1) * One) <= h
            /\ -Half < geo.x /\ geo.x < Half
            /\ -Half < geo.y /\ geo.y < Half
            /\ geo.col + 1 < w => XNormalized(geo.col + 1, w) > geo.x
            /\ geo.row + 1 < h => YNormalized(geo.row + 1, h) < geo.y
            /\ XNormalized(w - 1 - geo.col, w) = -geo.x
            /\ YNormalized(h - 1 - geo.row, h) = -geo.y
            /\ opposite[1] = -geo.coords[1] /\ opposite[2] = -geo.coords[2]
            /\ opposite[3] = geo.coords[3]

\* the top-left pixel of an image of three columns and two rows: left of and
\* above the center, with a pixel to its right and one below it
TopLeftPixelMapped ==
    /\ Returned("getViewPlaneCoords")
    /\ geo.width = 3 /\ geo.height = 2 /\ geo.row = 0 /\ geo.col = 0
    /\ geo.x < 0 /\ geo.y > 0
    /\ geo.coords[1] < 0 /\ geo.coords[2] > 0

\* how far from the cone's surface equation a rounded hit point may lie
ConeTolerance == One \div 100

\* the point lies on the cone of base radius 0.5 and height 1 between the
\* base (y = -0.5) and the apex (y = 0.5): there x^2 + z^2 = ((0.5 - y)/2)^2
OnRealCone(point) ==
    /\ \A k \in 1..3 : IsFinite(point[k])
    /\ -Half <= point[2] /\ point[2] <= Half
    /\ Abs(FSub(FAdd(Sq(point[1]), Sq(point[3])),
                Sq(FDiv(FSub(Half, point[2]), 2 * One)))) <= ConeTolerance

\* the roots of the cone's quadratic for a ray, infinities when there is none
ConeRoots(ray) ==
    LET d == ray.dir
        p == ray.pos
        A == FSub(FAdd(Sq(d[1]), Sq(d[3])), FMul(Quarter, Sq(d[2])))
        B == FAdd(FSub(FAdd(FMul(FMul(2 * One, p[1]), d[1]),
                            FMul(FMul(2 * One, p[3]), d[3])),
                       FMul(FMul(Half, p[2]), d[2])),
                  FMul(Quarter, d[2]))
        C == FSub(FAdd(FSub(FAdd(Sq(p[1]), Sq(p[3])), FMul(Quarter, Sq(p[2]))),
                       FMul(Quarter, p[2])),
                  Sixteenth)
    IN  SolveQuadraticBothSolutions(A, B, C)

\* C26: every hit of the conical surface that Cone intersect accepts lies on
\* the real cone between the base and the apex (y in [-h/2, h/2]); a root on
\* the mirrored nappe beyond the apex is never accepted.
ConeLateralOnRealNappe ==
    (Answered /\ geo.prim.type = "Cone") =>
        LET lateral == ConeLateral(geo.prim, geo.ray)
        IN  \A k \in 1..Len(lateral) :
               /\ IsFinite(lateral[k])
               /\ OnRealCone(GetPos(geo.ray, lateral[k]))

\* a ray with one root on the real cone, which is accepted, and one on the
\* mirrored nappe above the apex, which is not
MirroredRootRejected ==
    /\ Answered /\ geo.prim.type = "Cone"
    /\ LET lateral == ConeLateral(geo.prim, geo.ray)
           roots == ConeRoots(geo.ray)
       IN  /\ Len(lateral) = 1
           /\ \E k \in 1..2 :
                /\ IsFinite(roots[k]) /\ roots[k] # lateral[1]
                /\ FGt(GetPos(geo.ray, roots[k])[2], Half)

\* C27: every ray handed to traceRay (primary, shadow or reflection ray) is
\* newly constructed and enters with tHit = +infinity; so whenever traceRay
\* shades a hit, the index of the nearest primitive and the object-space hit
\* point were assigned during the scan of that same call: the index is a
\* position of the list and the point is the ray's point at tHit in the
\* object space of that primitive.
FreshRaysAssignHit ==
    \A k \in TraceFrames :
        LET f == stack[k]
        IN  /\ (f.pc = "scan" /\ f.i = 1) =>
                   /\ f.ray.t = Infinity
                   /\ f.hitIdx = 0
            /\ (\/ f.pc = "shading"
                \/ (f.pc = "scan" /\ f.i > NumPrimitives
                    /\ ShouldShade(f.depth, f.ray.t))) =>
                   /\ f.hitIdx \in 1..NumPrimitives
                   /\ f.hitIdx < f.i
                   /\ HitOf(f.hitIdx, f.ray) = f.ray.t
                   /\ f.objHit = GetPos(ObjSpaceRay(scene.primitives[f.hitIdx], f.ray),
                                        f.ray.t)

\* a reflection ray is shaded at a hit on the second primitive of the list,
\* while the call of the primary ray is still shading its own hit on the
\* first, and a shadow ray is being traced
ReflectionRayShaded ==
    /\ \E k \in TraceFrames :
         /\ stack[k].pc = "shading" /\ stack[k].depth >= 1
         /\ stack[k].hitIdx = 2
    /\ stack[1].pc = "shading" /\ stack[1].hitIdx = 1
    /\ \E j \in TraceFrames : stack[j].depth = ShadowDepth

\* C28 as stated: the point of the object-space ray at t, taken to world
\* space by applyCTM, is the point of the world-space ray at t.
SameTInWorldSpaceExact ==
    Returned("objSpaceRay") => geo.back = geo.worldPos

\* C28, amended: applyCTM(objSpaceRay.getPos(t), false) is
\* worldSpaceRay.getPos(t) within the rounding tolerance, where objSpaceRay has
\* the direction applyInverseCTM(dir, true) and the origin
\* applyInverseCTM(origin, false).
SameTInWorldSpace ==
    /\ Returned("objSpaceRay") =>
           \A k \in 1..3 : Abs(FSub(geo.back[k], geo.worldPos[k])) <= RoundTripTolerance
    /\ (geo.fn = "objSpaceRay" /\ geo.pc \in {"object", "done"}) =>
           /\ geo.objSpaceRay.dir = ApplyInverseCTM(geo.prim, geo.ray.dir, TRUE)
           /\ geo.objSpaceRay.pos = ApplyInverseCTM(geo.prim, geo.ray.pos, FALSE)

\* a ray through a primitive that is scaled by 3 and translated: the point at
\* t comes back from object space rounded, next to the world-space point
ScaledRayPointRounded ==
    /\ Returned("objSpaceRay")
    /\ geo.prim.ctm.m = Scaling(3 * One) /\ geo.prim.ctm.tr # <<0, 0, 0>>
    /\ geo.back # geo.worldPos
    /\ \A k \in 1..3 : Abs(FSub(geo.back[k], geo.worldPos[k])) <= RoundTripTolerance

\* the levels of shading from a depth down to maxRecursionDepth
LevelsBelow(depth) == MaxRecursionDepth + 1 - depth

\* the steps a shadow probe takes: the scan and the return of black; and the
\* steps one light takes in phong: the cast, the probe and its return
ProbeSteps == NumPrimitives + 1
LightSteps == ProbeSteps + 2

RECURSIVE TraceSteps(_)
\* the most steps a traceRay call at a depth can take: the scan, the
\* shading, the lights and the reflection of phong, and the two returns
TraceSteps(depth) ==
    NumPrimitives + 2 + NumLights * LightSteps
    + (IF depth < MaxRecursionDepth THEN 2 + TraceSteps(depth + 1) ELSE 1)

ReflectionSteps(depth) ==
    IF depth < MaxRecursionDepth THEN 2 + TraceSteps(depth + 1) ELSE 1

\* the steps a call on the stack can still take itself, the calls above it
\* on the stack not counted
StepsLeft(f) ==
    IF f.fn = "traceRay"
    THEN CASE f.pc = "scan" ->
                (NumPrimitives + 1 - f.i) + 1
                + (IF f.depth = ShadowDepth THEN 0
                   ELSE NumLights * LightSteps + ReflectionSteps(f.depth) + 1)
           [] f.pc = "shading" -> 1
           [] OTHER -> 0
    ELSE CASE f.pc = "lights" ->
                (NumLights + 1 - f.li) * LightSteps + ReflectionSteps(f.depth)
           [] f.pc = "shadow" ->
                1 + (NumLights - f.li) * LightSteps + ReflectionSteps(f.depth)
           [] f.pc = "reflect" -> ReflectionSteps(f.depth)
           [] f.pc = "reflecting" -> 1
           [] OTHER -> 0

RECURSIVE SumStepsLeft(_)
SumStepsLeft(n) == IF n = 0 THEN 0 ELSE SumStepsLeft(n - 1) + StepsLeft(stack[n])

\* the steps the pixel can still take: those of the calls, and the store
PixelStepsLeft ==
    CASE phase = "idle" -> TraceSteps(0) + 2
      [] phase = "tracing" -> SumStepsLeft(Len(stack)) + 1
      [] OTHER -> 0

\* some step of the tracer can be taken
CanStep ==
    \/ phase = "idle"
    \/ /\ stack # <<>>
       /\ \/ Top.fn = "traceRay" /\ Top.pc = "scan"
             /\ (\/ Top.i <= NumPrimitives
                 \/ ~ShouldShade(Top.depth, Top.ray.t)
                 \/ Top.hitIdx \in 1..NumPrimitives)
          \/ Top.fn = "traceRay" /\ Top.pc = "ret"
             /\ (\/ Len(stack) = 1
                 \/ Below.fn = "phong" /\ Below.pc \in {"shadow", "reflecting"})
          \/ Top.fn = "phong" /\ Top.pc \in {"lights", "reflect"}
          \/ Top.fn = "phong" /\ Top.pc = "ret" /\ Len(stack) >= 2
             /\ Below.fn = "traceRay" /\ Below.pc = "shading"

\* C29: the work for one pixel is bounded and ends: with L lights and
\* maxRecursionDepth = 4, tracing one primary ray makes at most 5 phong calls
\* (one per depth 0..4), at most 5*L shadow-probe traceRay calls and at most
\* 5*(1+L) traceRay calls in all (a call at depth d its share, of 5 - d
\* levels); phong makes its reflection call one level below its own depth
\* after the probes of all the lights, which take none of the depth; every
\* step takes away from the steps that are left, and until the pixel is
\* stored some step can be taken.
PixelWorkBounded ==
    /\ [](\A k \in TraceFrames :
            stack[k].depth >= 0 =>
                /\ stack[k].calls.phong <= LevelsBelow(stack[k].depth)
                /\ stack[k].calls.probe <= LevelsBelow(stack[k].depth) * NumLights
                /\ stack[k].calls.trace <= LevelsBelow(stack[k].depth) * (1 + NumLights))
    /\ [](stack # <<>> =>
            /\ stack[1].depth = 0
            /\ stack[1].calls.phong <= 5
            /\ stack[1].calls.probe <= 5 * NumLights
            /\ stack[1].calls.trace <= 5 * (1 + NumLights))
    /\ [](\A k \in PhongFrames :
            (k < Len(stack) /\ stack[k].pc = "reflecting") =>
                /\ stack[k].li = NumLights + 1
                /\ stack[k + 1].depth = stack[k].depth + 1)
    /\ [](PixelStepsLeft >= 0 /\ (phase # "done" => CanStep))
    /\ [][PixelStepsLeft' < PixelStepsLeft]_vars

\* a primary ray between two mirrors under two lights is back with the most
\* work a pixel can take: 5 phong calls, 10 probes, 15 traceRay calls
MostWorkForAPixel ==
    /\ Len(stack) = 1 /\ Top.pc = "ret" /\ NumLights = 2
    /\ Top.calls = [phong |-> 5, probe |-> 10, trace |-> 15]

----------------------------------------------------------------------------
(* SceneParser::parse on its own: the scene graph of a scene file is       *)
(* walked depth first and its primitives are listed with their CTMs.       *)

\* the most nodes of a scene graph
MaxNodes == 4

\* the product of two affine matrices
MatEntry(a, b, i, j) ==
    FAdd(FAdd(FMul(a[i][1], b[1][j]), FMul(a[i][2], b[2][j])), FMul(a[i][3], b[3][j]))
MatMul3(a, b) ==
    <<(<<MatEntry(a, b, 1, 1), MatEntry(a, b, 1, 2), MatEntry(a, b, 1, 3)>>),
      (<<MatEntry(a, b, 2, 1), MatEntry(a, b, 2, 2), MatEntry(a, b, 2, 3)>>),
      (<<MatEntry(a, b, 3, 1), MatEntry(a, b, 3, 2), MatEntry(a, b, 3, 3)>>)>>
Compose(a, b) == [m |-> MatMul3(a.m, b.m), tr |-> VAdd(MatVec(a.m, b.tr), a.tr)]

\* glm::mat4(1.0f)
IdentityCTM == [m |-> Identity3, tr |-> <<0, 0, 0>>]

\* glm::rotate(angle, axis): cos * I + (1 - cos) * a a^T + sin * [a]x for
\* the unit axis a
RotationEntry(a, c, s, i, j) ==
    LET skew == <<(<<0, FNeg(a[3]), a[2]>>), (<<a[3], 0, FNeg(a[1])>>),
                  (<<FNeg(a[2]), a[1], 0>>)>>
    IN  FAdd(FAdd(IF i = j THEN c ELSE 0, FMul(FSub(One, c), FMul(a[i], a[j]))),
             FMul(s, skew[i][j]))
RotationAbout(a, c, s) ==
    [m |-> <<(<<RotationEntry(a, c, s, 1, 1), RotationEntry(a, c, s, 1, 2),
                RotationEntry(a, c, s, 1, 3)>>),
             (<<RotationEntry(a, c, s, 2, 1), RotationEntry(a, c, s, 2, 2),
                RotationEntry(a, c, s, 2, 3)>>),
             (<<RotationEntry(a, c, s, 3, 1), RotationEntry(a, c, s, 3, 2),
                RotationEntry(a, c, s, 3, 3)>>)>>,
     tr |-> <<0, 0, 0>>]
Rotation(angle, axis) == RotationAbout(Normalize(axis), FCos(angle), FSin(angle))

\* calculateCTM, lines 38-51: the local matrix of a transformation
TransformMatrix(currTransformation) ==
    CASE currTransformation.type = "scale" ->
           [m |-> <<(<<currTransformation.scale[1], 0, 0>>),
                    (<<0, currTransformation.scale[2], 0>>),
                    (<<0, 0, currTransformation.scale[3]>>)>>,
            tr |-> <<0, 0, 0>>]
      [] currTransformation.type = "rotate" ->
           Rotation(currTransformation.angle, currTransformation.rotate)
      [] currTransformation.type = "translate" ->
           [m |-> Identity3, tr |-> currTransformation.translate]
      [] currTransformation.type = "matrix" -> currTransformation.matrix

\* a product with the local matrix on the left
TimesOnTheLeft(currCTM, currTransformMatrix) == Compose(currTransformMatrix, currCTM)

\* calculateCTM, line 52: currCTM *= currTransformMatrix
Times(currCTM, currTransformMatrix) == Compose(currCTM, currTransformMatrix)

RECURSIVE ApplyTransformations(_, _, _)
\* calculateCTM, lines 33-53: the CTM of a node from a copy of its parent's
ApplyTransformations(currCTM, transformations, k) ==
    IF k > Len(transformations) THEN currCTM
    ELSE ApplyTransformations(Times(currCTM, TransformMatrix(transformations[k])),
                              transformations, k + 1)

\* the lists of transformations a node can carry
ScaleBy2 == [type |-> "scale", scale |-> <<2 * One, 2 * One, One>>]
MoveUp == [type |-> "translate", translate |-> <<0, One, 0>>]
TurnAboutZ == [type |-> "rotate", angle |-> HalfPi, rotate |-> <<0, 0, 2 * One>>]
ShearMatrix ==
    [type |-> "matrix",
     matrix |-> [m |-> <<(<<One, One, 0>>), (<<0, One, 0>>), (<<0, 0, One>>)>>,
                 tr |-> <<One, 0, 0>>]]
TransformationLists == { <<>>, <<ScaleBy2, MoveUp>>, <<MoveUp, TurnAboutZ, ShearMatrix>> }

\* the primitives of node k: none, one or two, named by node and position
NodePrimitives(k) == [j \in 1..((k + 1) % 3) |-> 10 * k + j]

\* the scene graphs: node 1 is the root, every other node hangs below an
\* earlier one, children in the order of their numbers
SceneGraph(n, ts, parents) ==
    [k \in 1..n |->
        [transformations |-> ts[k], primitives |-> NodePrimitives(k),
         parent |-> parents[k]]]
Parents(n) ==
    { p \in [1..n -> 0..(n - 1)] :
        \A k \in 1..n : IF k = 1 THEN p[k] = 0 ELSE p[k] \in 1..(k - 1) }

RECURSIVE SortedSeq(_)
SortedSeq(set) ==
    IF set = {} THEN <<>>
    ELSE LET least == CHOOSE x \in set : \A y \in set : x <= y
         IN  <<least>> \o SortedSeq(set \ {least})

\* currNode->children
Children(graph, k) == SortedSeq({ c \in DOMAIN graph : graph[c].parent = k })

\* what renderData.shapes holds before the parse: nothing, or a shape of an
\* earlier parse
StaleShapes == { <<>>, <<[primitive |-> 0, ctm |-> IdentityCTM]>> }

\* calculateCTM, lines 33-59: a call up to its loop over the children
EnterNode(parentCTM, graph, k, renderShapesList) ==
    LET currCTM == ApplyTransformations(parentCTM, graph[k].transformations, 1)
    IN  [frame |-> [node |-> k, currCTM |-> currCTM, child |-> 1],
         shapes |-> renderShapesList
                    \o [j \in 1..Len(graph[k].primitives) |->
                          [primitive |-> graph[k].primitives[j], ctm |-> currCTM]]]

InitParse ==
    /\ scene = EmptyScene
    /\ stack = <<>>
    /\ pixel = Black
    /\ phase = "parse"
    /\ rend = NoRender
    /\ \E n \in 1..MaxNodes :
         \E ts \in [1..n -> TransformationLists], parents \in Parents(n),
            stale \in StaleShapes, success \in BOOLEAN :
           geo = [pc |-> "parse", graph |-> SceneGraph(n, ts, parents),
                  success |-> success, shapes |-> stale, frames |-> <<>>]

\* SceneParser::parse, lines 10-14: the file cannot be read
ParseFails ==
    /\ phase = "parse" /\ geo.pc = "parse" /\ ~geo.success
    /\ geo' = [geo EXCEPT !.pc = "failed"]
    /\ UNCHANGED <<scene, stack, pixel, phase, rend>>

\* SceneParser::parse, lines 17-25: the shapes are cleared and the root is
\* entered with the identity
ParseRoot ==
    /\ phase = "parse" /\ geo.pc = "parse" /\ geo.success
    /\ LET call == EnterNode(IdentityCTM, geo.graph, 1, <<>>)
       IN  geo' = [geo EXCEPT !.pc = "walk", !.shapes = call.shapes,
                              !.frames = <<call.frame>>]
    /\ UNCHANGED <<scene, stack, pixel, phase, rend>>

\* calculateCTM, lines 62-64: the next child is entered with this node's CTM
Descend ==
    /\ phase = "parse" /\ geo.pc = "walk"
    /\ LET f == geo.frames[Len(geo.frames)]
           children == Children(geo.graph, f.node)
       IN  /\ f.child <= Len(children)
           /\ LET call == EnterNode(f.currCTM, geo.graph, children[f.child], geo.shapes)
              IN  geo' = [geo EXCEPT
                            !.shapes = call.shapes,
                            !.frames = Append([@ EXCEPT ![Len(@)].child = f.child + 1],
                                              call.frame)]
    /\ UNCHANGED <<scene, stack, pixel, phase, rend>>

\* calculateCTM, line 67, and parse, line 27: the call of a node returns
Ascend ==
    /\ phase = "parse" /\ geo.pc = "walk"
    /\ LET f == geo.frames[Len(geo.frames)]
       IN  /\ f.child > Len(Children(geo.graph, f.node))
           /\ geo' = [geo EXCEPT !.frames = SubSeq(@, 1, Len(@) - 1),
                                 !.pc = IF Len(geo.frames) = 1 THEN "done" ELSE @]
    /\ UNCHANGED <<scene, stack, pixel, phase, rend>>

NextParse == ParseFails \/ ParseRoot \/ Descend \/ Ascend

SpecParse == InitParse /\ [][NextParse]_vars

RECURSIVE PathProduct(_, _)
\* the product of the local matrices from the root down to node k, each
\* node's in their listed order
PathProduct(graph, k) ==
    LET above == IF k = 1 THEN IdentityCTM ELSE PathProduct(graph, graph[k].parent)
        RECURSIVE Fold(_, _)
        Fold(acc, j) ==
            IF j > Len(graph[k].transformations) THEN acc
            ELSE Fold(Compose(acc, TransformMatrix(graph[k].transformations[j])), j + 1)
    IN  Fold(above, 1)

\* the node a primitive belongs to
NodeOf(primitive) == primitive \div 10

RECURSIVE IsAncestor(_, _, _)
IsAncestor(graph, a, k) ==
    k # 1 /\ (graph[k].parent = a \/ IsAncestor(graph, a, graph[k].parent))

\* C30: after a successful parse, every primitive of the scene graph is in
\* renderData.shapes exactly once and nothing else is (shapes of an earlier
\* parse are gone); the primitives of a node come in their listed order, those
\* of a node before those of the nodes below it, and a whole subtree before
\* the next sibling (depth first); and the CTM of each is the product, from
\* the root down to its node, of the local matrices in their listed order, so
\* it depends on no sibling and no descendant.
ShapesListTheGraph ==
    phase = "parse" /\ geo.pc = "done" =>
        LET shapes == geo.shapes
            graph == geo.graph
            all == UNION { { graph[k].primitives[j] : j \in 1..Len(graph[k].primitives) } :
                           k \in DOMAIN graph }
            at(p) == CHOOSE i \in 1..Len(shapes) : shapes[i].primitive = p
        IN  /\ { shapes[i].primitive : i \in 1..Len(shapes) } = all
            /\ Len(shapes) = Cardinality(all)
            /\ \A i \in 1..Len(shapes) :
                 shapes[i].ctm = PathProduct(graph, NodeOf(shapes[i].primitive))
            /\ \A p \in all, q \in all :
                 /\ (NodeOf(p) = NodeOf(q) /\ p < q) => at(p) < at(q)
                 /\ IsAncestor(graph, NodeOf(p), NodeOf(q)) => at(p) < at(q)
                 /\ \A r \in all :
                      (/\ at(p) < at(r) /\ at(r) < at(q)
                       /\ IsAncestor(graph, NodeOf(p), NodeOf(q)))
                      => (NodeOf(r) = NodeOf(p) \/ IsAncestor(graph, NodeOf(p), NodeOf(r)))

\* a graph of four nodes has been parsed over a stale list: a child carries
\* two transformations whose order matters, its own child inherits them, and
\* a later sibling of it does not
DeepGraphParsed ==
    /\ phase = "parse" /\ geo.pc = "done"
    /\ Len(geo.graph) = 4
    /\ geo.graph[2].parent = 1 /\ geo.graph[4].parent = 2 /\ geo.graph[3].parent = 1
    /\ geo.graph[1].transformations = <<MoveUp, TurnAboutZ, ShearMatrix>>
    /\ geo.graph[2].transformations = <<ScaleBy2, MoveUp>>
    /\ geo.graph[3].transformations = <<>>
    /\ Len(geo.shapes) = 5
    /\ geo.shapes[3].primitive = 41 /\ geo.shapes[4].primitive = 42
    /\ geo.shapes[3].ctm # geo.shapes[1].ctm

====
